---- MODULE Spec2Model ----
(***************************************************************************)
(* Key resolution and translation store engine of the i18n integration     *)
(* tool: KeyValidator, KeyGenerator, DuplicateDetector, KeyManager,        *)
(* JSONManager, BackupSystem, DuplicateValueDetector, TranslationManager.  *)
(*                                                                         *)
(* Strings are sequences of character atoms.  ASCII characters are the     *)
(* one-character strings; the Persian letters used by the model are the    *)
(* atoms "fa_s" (sin), "fa_l" (lam), "fa_a" (alef), "fa_m" (mim) and       *)
(* "fa_n" (nun).                                                           *)
(***************************************************************************)
EXTENDS Integers, Sequences, FiniteSets, TLC

VARIABLES
    rules,      \* KeyValidator.rules
    valUsed,    \* KeyValidator.usedKeys
    nPc,        \* position of the normalize/validate driver
    nIn,        \* the string handed to normalizeKey
    nOut,       \* normalizeKey(nIn)
    nOut2,      \* normalizeKey(nOut), used set unchanged
    nValid,     \* validateKey(nOut).isValid
    str1,       \* first string handed to calculateSimilarity
    str2,       \* second string handed to calculateSimilarity
    simOut,     \* the similarities computed from str1 and str2
    recoveryAttempts, \* ErrorRecoveryManager.recoveryAttempts.get(errorKey) || 0
    recoveryOptions,  \* the options of the attemptRecovery calls, and whether a strategy applies
    recoveryCalls,    \* each attemptRecovery call: its position, its local attempts, its result
    invoked,    \* strategy.recover calls since the last successful recovery or reset
    options,    \* KeyGenerator.options
    genUsed,    \* KeyGenerator.usedKeys
    ddData,     \* DuplicateDetector.translationData: locale -> key -> value
    ddV2K,      \* DuplicateDetector.valueToKeys: locale -> normalized value -> keys[]
    kmKeys,     \* the final keys returned since construction or the last reset, in order
    kmSeeded,   \* the keys seeded by loadExisting/addEntry since then
    kmLast,     \* the last KeyManager call and what it returned
    kmOps,      \* number of KeyManager calls made
    files,      \* the translations directory: locale -> content of <locale>.json
    backups,    \* the backup directory: backups[id] is the backup with that id
    createBackups, \* config.fileProcessing.createBackups
    report,     \* the duplicate groups the last scan reported, per locale
    lastOp,     \* the last store call, its arguments and whether it returned
    stOps,      \* number of store calls made
    faults      \* number of I/O failures that have occurred

valVars == <<rules, valUsed>>
simVars == <<str1, str2, simOut>>
erVars == <<recoveryAttempts, recoveryOptions, recoveryCalls, invoked>>
normVars == <<nPc, nIn, nOut, nOut2, nValid, simVars, erVars>>
kmVars == <<options, genUsed, ddData, ddV2K, kmKeys, kmSeeded, kmLast, kmOps>>
storeVars == <<files, backups, createBackups, report, lastOp, stOps, faults>>

-----------------------------------------------------------------------------
(* Characters *)

LowerChars == {"a","b","c","d","e","f","g","h","i","j","k","l","m",
               "n","o","p","q","r","s","t","u","v","w","x","y","z"}
DigitChars == {"0","1","2","3","4","5","6","7","8","9"}
UpperChars == {"A","B","K","S","X"}
PersianChars == {"fa_a","fa_s","fa_l","fa_m","fa_n"}
SpaceChars == {" "}
PunctChars == {"!","-","."}

\* UTF-16 code unit order of the characters of the model
CharOrder ==
    <<" ","!","-",".","0","1","2","3","4","5","6","7","8","9",
      "A","B","K","S","X","_",
      "a","b","c","d","e","f","g","h","i","j","k","l","m",
      "n","o","p","q","r","s","t","u","v","w","x","y","z",
      "fa_a","fa_s","fa_l","fa_m","fa_n">>

Code(c) == CHOOSE i \in 1..Len(CharOrder) : CharOrder[i] = c

\* String.prototype.toLowerCase on one character
LowerChar(c) ==
    CASE c = "A" -> "a"
      [] c = "B" -> "b"
      [] c = "K" -> "k"
      [] c = "S" -> "s"
      [] c = "X" -> "x"
      [] OTHER -> c

\* F applied to the value of x, which is evaluated once
With(x, F(_)) == CHOOSE r \in {F(v) : v \in {x}} : TRUE

ToLower(s0) == With(s0, LAMBDA s : [i \in 1..Len(s) |-> LowerChar(s[i])])

\* \w of a JavaScript regular expression
IsWordChar(c) == c \in LowerChars \cup UpperChars \cup DigitChars \cup {"_"}

\* [a-z0-9_]
IsKeyChar(c) == c \in LowerChars \cup DigitChars \cup {"_"}

-----------------------------------------------------------------------------
(* String helpers *)

\* s.substring(0, n)
Prefix(s0, n) ==
    With(s0, LAMBDA s : SubSeq(s, 1, IF n < Len(s) THEN (IF n < 0 THEN 0 ELSE n) ELSE Len(s)))

StartsWith(s0, p) ==
    With(s0, LAMBDA s : Len(p) <= Len(s) /\ SubSeq(s, 1, Len(p)) = p)
EndsWith(s0, p) ==
    With(s0, LAMBDA s : Len(p) <= Len(s) /\ SubSeq(s, Len(s) - Len(p) + 1, Len(s)) = p)

\* the characters of s at the positions i that satisfy Keep(s, i), in order
KeepPositions(s0, Keep(_, _)) ==
    With(s0, LAMBDA s :
        With(SelectSeq([i \in 1..Len(s) |-> i], LAMBDA i : Keep(s, i)), LAMBDA kept :
            [j \in 1..Len(kept) |-> s[kept[j]]]))

\* the characters of s that satisfy Ok, in order
KeepChars(s, Ok(_)) == SelectSeq(s, Ok)

\* s without the characters of set C at both ends
TrimChars(s0, C) ==
    With(s0, LAMBDA s :
        With({i \in 1..Len(s) : s[i] \notin C}, LAMBDA solid :
            IF solid = {} THEN <<>>
            ELSE SubSeq(s, CHOOSE i \in solid : \A j \in solid : i <= j,
                           CHOOSE i \in solid : \A j \in solid : i >= j)))

\* every run of two or more characters of C in s cut down to its first character
CollapseRuns(s, C) ==
    KeepPositions(s, LAMBDA t, i : ~(t[i] \in C /\ i > 1 /\ t[i - 1] \in C))

\* s.replace(/_{2,}/g, '_')
CollapseUnderscores(s) == CollapseRuns(s, {"_"})

\* s.replace(/^_+|_+$/g, '')
TrimUnderscores(s) == TrimChars(s, {"_"})

\* s.replace(/^_|_$/g, ''): at most one underscore at each end
TrimOneUnderscore(s0) ==
    With(s0, LAMBDA s :
        With(IF Len(s) > 0 /\ s[1] = "_" THEN Tail(s) ELSE s, LAMBDA a :
            IF Len(a) > 0 /\ a[Len(a)] = "_" THEN SubSeq(a, 1, Len(a) - 1) ELSE a))

\* s.split('_')
Split(s0) ==
    With(s0, LAMBDA s :
        With(SelectSeq([i \in 1..Len(s) |-> i], LAMBDA i : s[i] = "_"), LAMBDA seps :
            [j \in 1..(Len(seps) + 1) |->
                SubSeq(s, IF j = 1 THEN 1 ELSE seps[j - 1] + 1,
                          IF j = Len(seps) + 1 THEN Len(s) ELSE seps[j] - 1)]))

\* String(n) for n >= 0
DigitOf(d) == CharOrder[Code("0") + d]

RECURSIVE NumStr(_)
NumStr(n) == IF n < 10 THEN <<DigitOf(n)>> ELSE NumStr(n \div 10) \o <<DigitOf(n % 10)>>

\* lexicographic order by code unit, as Array.prototype.sort without comparator
RECURSIVE StrLess(_, _)
StrLess(a, b) ==
    IF Len(b) = 0 THEN FALSE
    ELSE IF Len(a) = 0 THEN TRUE
    ELSE IF a[1] = b[1] THEN StrLess(Tail(a), Tail(b))
    ELSE Code(a[1]) < Code(b[1])

-----------------------------------------------------------------------------
(* KeyValidator *)

\* forbiddenPatterns of DEFAULT_KEY_RULES, by their regular expressions
ForbiddenPatterns == <<"^_+$", "^[0-9]+$", "__+", "^_|_$">>

ReservedWords ==
    { <<"u","n","d","e","f","i","n","e","d">>,
      <<"n","u","l","l">>,
      <<"t","r","u","e">>,
      <<"f","a","l","s","e">>,
      <<"f","u","n","c","t","i","o","n">>,
      <<"v","a","r">>,
      <<"l","e","t">>,
      <<"c","o","n","s","t">>,
      <<"i","f">>,
      <<"e","l","s","e">>,
      <<"f","o","r">>,
      <<"w","h","i","l","e">>,
      <<"d","o">>,
      <<"s","w","i","t","c","h">>,
      <<"c","a","s","e">>,
      <<"d","e","f","a","u","l","t">>,
      <<"b","r","e","a","k">>,
      <<"c","o","n","t","i","n","u","e">>,
      <<"r","e","t","u","r","n">>,
      <<"t","r","y">>,
      <<"c","a","t","c","h">>,
      <<"f","i","n","a","l","l","y">>,
      <<"t","h","r","o","w">>,
      <<"n","e","w">>,
      <<"t","h","i","s">>,
      <<"s","u","p","e","r">>,
      <<"c","l","a","s","s">>,
      <<"e","x","t","e","n","d","s">>,
      <<"i","m","p","o","r","t">>,
      <<"e","x","p","o","r","t">>,
      <<"f","r","o","m">>,
      <<"a","s">> }

DefaultMaxLength == 100
DefaultMinLength == 2

DEFAULT_KEY_RULES ==
    [ maxLength |-> DefaultMaxLength,
      minLength |-> DefaultMinLength,
      reservedWords |-> ReservedWords,
      requirePrefix |-> <<>>,
      requireSuffix |-> <<>>,
      caseSensitive |-> FALSE ]

\* pattern.test(key)
PatternTest(pattern, key0) ==
  With(key0, LAMBDA key :
    CASE pattern = "^_+$" -> Len(key) > 0 /\ \A i \in 1..Len(key) : key[i] = "_"
      [] pattern = "^[0-9]+$" -> Len(key) > 0 /\ \A i \in 1..Len(key) : key[i] \in DigitChars
      [] pattern = "__+" -> \E i \in 1..(Len(key) - 1) : key[i] = "_" /\ key[i + 1] = "_"
      [] pattern = "^_|_$" -> Len(key) > 0 /\ (key[1] = "_" \/ key[Len(key)] = "_")
      [] OTHER -> FALSE)

\* rules.allowedCharacters.test(key), /^[a-z0-9_]+$/
AllowedCharacters(key0) ==
    With(key0, LAMBDA key : Len(key) > 0 /\ \A i \in 1..Len(key) : IsKeyChar(key[i]))

\* s with every character that fails Ok replaced by rep
ReplaceChars(s0, Ok(_), rep) ==
    With(s0, LAMBDA s : [i \in 1..Len(s) |-> IF Ok(s[i]) THEN s[i] ELSE rep])

sanitizeKey(key) ==
    TrimUnderscores(CollapseUnderscores(ReplaceChars(key, IsKeyChar, "_")))

fixForbiddenPattern(key, pattern) ==
    CASE pattern = "^_+$" -> <<"u","n","n","a","m","e","d","_","k","e","y">>
      [] pattern = "^[0-9]+$" -> <<"k","e","y","_">> \o key
      [] pattern = "__+" -> CollapseUnderscores(key)
      [] pattern = "^_|_$" -> TrimUnderscores(key)
      [] OTHER -> key

\* the loop of truncateKey over the parts from index i
RECURSIVE TruncateParts(_, _, _, _)
TruncateParts(parts, i, result0, max) ==
    With(result0, LAMBDA result :
        IF i > Len(parts) THEN result
        ELSE IF Len(result) + Len(parts[i]) + 1 <= max
             THEN TruncateParts(parts, i + 1,
                      result \o (IF result = <<>> THEN <<>> ELSE <<"_">>) \o parts[i], max)
             ELSE IF max - Len(result) - 1 > 0
                  THEN result \o (IF result = <<>> THEN <<>> ELSE <<"_">>)
                              \o Prefix(parts[i], max - Len(result) - 1)
                  ELSE result)

truncateKey(key0, r) ==
    With(key0, LAMBDA key :
        IF Len(key) <= r.maxLength THEN key
        ELSE With(Split(key), LAMBDA parts :
                 IF Len(parts) = 1 THEN Prefix(key, r.maxLength)
                 ELSE With(TruncateParts(parts, 1, <<>>, r.maxLength), LAMBDA result :
                          IF result = <<>> THEN Prefix(key, r.maxLength) ELSE result)))

PadSuffixes == << <<"k","e","y">>, <<"t","e","x","t">>, <<"l","a","b","e","l">>, <<"m","s","g">> >>

RECURSIVE PadNumbers(_, _, _)
PadNumbers(key0, counter, min) ==
    With(key0, LAMBDA key :
        IF Len(key) < min THEN PadNumbers(key \o <<"_">> \o NumStr(counter), counter + 1, min)
        ELSE key)

padKey(key0, r) ==
    With(key0, LAMBDA key :
        IF Len(key) >= r.minLength THEN key
        ELSE With({i \in 1..Len(PadSuffixes) :
                      Len(key) + 1 + Len(PadSuffixes[i]) >= r.minLength}, LAMBDA fits :
                 IF fits # {}
                 THEN key \o <<"_">> \o PadSuffixes[CHOOSE i \in fits : \A j \in fits : i <= j]
                 ELSE PadNumbers(key, 1, r.minLength)))

\* KeyValidator.ensureUniqueness: key, key_1, key_2, ... until unused
RECURSIVE UniqueFrom(_, _, _, _)
UniqueFrom(key, uniqueKey0, counter, used) ==
    With(uniqueKey0, LAMBDA uniqueKey :
        IF uniqueKey \in used
        THEN UniqueFrom(key, key \o <<"_">> \o NumStr(counter), counter + 1, used)
        ELSE uniqueKey)

ensureUniqueness(key0, used) == With(key0, LAMBDA key : UniqueFrom(key, key, 1, used))

\* the forbidden-pattern repair loop of normalizeKey
RECURSIVE FixPatterns(_, _)
FixPatterns(key0, i) ==
    With(key0, LAMBDA key :
        IF i > Len(ForbiddenPatterns) THEN key
        ELSE IF PatternTest(ForbiddenPatterns[i], key)
             THEN FixPatterns(fixForbiddenPattern(key, ForbiddenPatterns[i]), i + 1)
             ELSE FixPatterns(key, i + 1))

IsReserved(key, r) ==
    (IF r.caseSensitive THEN key ELSE ToLower(key)) \in r.reservedWords

\* the length repairs of normalizeKey
FixLength(key0, r) ==
    With(key0, LAMBDA key :
        With(IF Len(key) > r.maxLength THEN truncateKey(key, r) ELSE key, LAMBDA cut :
            IF Len(cut) < r.minLength THEN padKey(cut, r) ELSE cut))

\* the reserved-word repair of normalizeKey
FixReserved(key0, r) ==
    With(key0, LAMBDA key : IF IsReserved(key, r) THEN key \o <<"_","k","e","y">> ELSE key)

\* the prefix and suffix injection of normalizeKey
FixAffixes(key0, r) ==
    With(key0, LAMBDA key :
        With(IF r.requirePrefix # <<>> /\ ~StartsWith(key, r.requirePrefix)
             THEN r.requirePrefix \o <<"_">> \o key ELSE key, LAMBDA pre :
            IF r.requireSuffix # <<>> /\ ~EndsWith(pre, r.requireSuffix)
            THEN pre \o <<"_">> \o r.requireSuffix ELSE pre))

normalizeKey(key, r, used) ==
    IF key = <<>> THEN <<"i","n","v","a","l","i","d","_","k","e","y">>
    ELSE ensureUniqueness(
             FixAffixes(FixReserved(FixLength(
                 FixPatterns(sanitizeKey(ToLower(key)), 1), r), r), r), used)

\* the errors of validateKey, by kind
validateKey(key0, r, used) ==
    With(key0, LAMBDA key :
        IF key = <<>> THEN {"empty"}
        ELSE (IF Len(key) < r.minLength THEN {"minLength"} ELSE {})
             \cup (IF Len(key) > r.maxLength THEN {"maxLength"} ELSE {})
             \cup (IF ~AllowedCharacters(key) THEN {"characters"} ELSE {})
             \cup {ForbiddenPatterns[i] : i \in {j \in 1..Len(ForbiddenPatterns) :
                                                      PatternTest(ForbiddenPatterns[j], key)}}
             \cup (IF IsReserved(key, r) THEN {"reserved"} ELSE {})
             \cup (IF key \in used THEN {"used"} ELSE {}))

isValid(key, r, used) == validateKey(key, r, used) = {}

-----------------------------------------------------------------------------
(* KeyGenerator *)

\* the entries of TRANSLITERATION_MAP for the characters of the model, in table order
TRANSLITERATION_MAP ==
    << << <<"fa_a">>, <<"a">> >>,
       << <<"fa_s">>, <<"s">> >>,
       << <<"fa_l">>, <<"l">> >>,
       << <<"fa_m">>, <<"m">> >>,
       << <<"fa_n">>, <<"n">> >>,
       << <<"fa_s","fa_l","fa_a","fa_m">>, <<"h","e","l","l","o">> >>,
       << <<"fa_n","fa_a","fa_m">>, <<"n","a","m","e">> >> >>

\* s.trim()
TrimSpaces(s) == TrimChars(s, SpaceChars)

\* s.replace(/\s+/g, rep) for a one-character rep
CollapseSpaces(s, rep) ==
    ReplaceChars(CollapseRuns(s, SpaceChars), LAMBDA c : c \notin SpaceChars, rep)

\* [؀-ۿ...\s\w]: what normalizeText and normalizeValue keep
IsTextChar(c) == c \in PersianChars \cup SpaceChars \/ IsWordChar(c)

normalizeText(text) == KeepChars(CollapseSpaces(TrimSpaces(text), " "), IsTextChar)

\* s.replace(new RegExp(pat, 'g'), rep)
RECURSIVE ReplaceAll(_, _, _)
ReplaceAll(s0, pat, rep) ==
    With(s0, LAMBDA s :
        IF Len(s) < Len(pat) THEN s
        ELSE IF SubSeq(s, 1, Len(pat)) = pat
             THEN rep \o ReplaceAll(SubSeq(s, Len(pat) + 1, Len(s)), pat, rep)
             ELSE <<s[1]>> \o ReplaceAll(Tail(s), pat, rep))

RECURSIVE ReplaceWords(_, _)
ReplaceWords(s0, i) ==
    With(s0, LAMBDA s :
        IF i > Len(TRANSLITERATION_MAP) THEN s
        ELSE IF Len(TRANSLITERATION_MAP[i][1]) > 1
             THEN ReplaceWords(ReplaceAll(s, TRANSLITERATION_MAP[i][1],
                                          TRANSLITERATION_MAP[i][2]), i + 1)
             ELSE ReplaceWords(s, i + 1))

\* TRANSLITERATION_MAP[char] || char
MapChar(c) ==
    With({i \in 1..Len(TRANSLITERATION_MAP) : TRANSLITERATION_MAP[i][1] = <<c>>}, LAMBDA hits :
        IF hits = {} THEN <<c>> ELSE TRANSLITERATION_MAP[CHOOSE i \in hits : TRUE][2])

RECURSIVE MapChars(_)
MapChars(s0) ==
    With(s0, LAMBDA s : IF s = <<>> THEN <<>> ELSE MapChar(s[1]) \o MapChars(Tail(s)))

transliterateText(text0) ==
    With(text0, LAMBDA text :
        With({i \in 1..Len(TRANSLITERATION_MAP) :
                 ToLower(TRANSLITERATION_MAP[i][1]) = ToLower(text)}, LAMBDA whole :
            IF whole # {}
            THEN TRANSLITERATION_MAP[CHOOSE i \in whole : \A j \in whole : i <= j][2]
            ELSE MapChars(ReplaceWords(text, 1))))

\* the loop of KeyGenerator.truncateKey over the parts from index i
RECURSIVE GenTruncateParts(_, _, _, _)
GenTruncateParts(parts, i, result0, max) ==
    With(result0, LAMBDA result :
        IF i > Len(parts) THEN result
        ELSE IF Len(result) + Len(parts[i]) + 1 <= max
             THEN GenTruncateParts(parts, i + 1,
                      result \o (IF result = <<>> THEN <<>> ELSE <<"_">>) \o parts[i], max)
             ELSE With(Prefix(parts[i], IF max - Len(result) - 1 > 1
                                        THEN max - Len(result) - 1 ELSE 1), LAMBDA abbreviated :
                      IF Len(abbreviated) > 0
                      THEN result \o (IF result = <<>> THEN <<>> ELSE <<"_">>) \o abbreviated
                      ELSE result))

GenTruncateKey(key0, o) ==
    With(key0, LAMBDA key :
        IF Len(key) <= o.maxLength THEN key
        ELSE With(Split(key), LAMBDA parts :
                 IF Len(parts) = 1 THEN Prefix(key, o.maxLength)
                 ELSE With(GenTruncateParts(parts, 1, <<>>, o.maxLength), LAMBDA result :
                          IF result = <<>> THEN Prefix(key, o.maxLength) ELSE result)))

GenDefaultMaxLength == 50

S_untranslated_text == <<"u","n","t","r","a","n","s","l","a","t","e","d","_","t","e","x","t">>

\* the slug createSemanticKey makes of the transliterated text
Slug(transliteratedText) ==
    TrimOneUnderscore(CollapseUnderscores(CollapseSpaces(
        KeepChars(ToLower(transliteratedText),
                  LAMBDA c : c \in LowerChars \cup DigitChars \cup SpaceChars), "_")))

\* context.toLowerCase().replace(/[^a-z0-9]/g, '')
ContextKey(context) == KeepChars(ToLower(context), LAMBDA c : c \in LowerChars \cup DigitChars)

createSemanticKey(transliteratedText, context, o) ==
    With(Slug(transliteratedText), LAMBDA base :
    With(ContextKey(context), LAMBDA contextKey :
    With(IF o.useContext /\ context # <<>> /\ contextKey # <<>>
         THEN contextKey \o <<"_">> \o base ELSE base, LAMBDA withCtx :
    With(IF o.prefix # <<>> THEN o.prefix \o <<"_">> \o withCtx ELSE withCtx, LAMBDA withPrefix :
    With(IF withPrefix = <<>> THEN S_untranslated_text ELSE withPrefix, LAMBDA nonEmpty :
        IF Len(nonEmpty) > o.maxLength THEN GenTruncateKey(nonEmpty, o) ELSE nonEmpty)))))

\* a match text that is not a string (undefined, null, a number)
NotAString == <<"undefined">>

\* KeyGenerator.generateKey throws: text.trim() of normalizeText on a non-string
generateKeyThrows(text, context) == text = NotAString

\* KeyGenerator.generateKey: the key returned (which is also added to usedKeys)
generateKey(text, context, o, used) ==
    ensureUniqueness(createSemanticKey(transliterateText(normalizeText(text)), context, o), used)

-----------------------------------------------------------------------------
(* DuplicateDetector *)

normalizeValue(value) ==
    KeepChars(CollapseSpaces(ToLower(TrimSpaces(value)), " "), IsTextChar)

\* a Map after set(k, v)
MapSet(m0, k, v) ==
    With(m0, LAMBDA m : [x \in DOMAIN m \cup {k} |-> IF x = k THEN v ELSE m[x]])

\* valueMap after pushing key under the normalized value
PushKey(valueMap0, value, key) ==
    With(valueMap0, LAMBDA valueMap :
        With(normalizeValue(value), LAMBDA nv :
            MapSet(valueMap, nv,
                   (IF nv \in DOMAIN valueMap THEN valueMap[nv] ELSE <<>>) \o <<key>>)))

EmptyMap == [x \in {} |-> <<>>]

\* the valueMap loadTranslationData builds from the entries of one locale
RECURSIVE BuildValueMap(_, _)
BuildValueMap(entries, i) ==
    IF i = 0 THEN EmptyMap
    ELSE PushKey(BuildValueMap(entries, i - 1), entries[i][2], entries[i][1])

\* the localeMap loadTranslationData builds from the entries of one locale
BuildLocaleMap(entries) ==
    [k \in {entries[i][1] : i \in 1..Len(entries)} |->
        entries[CHOOSE i \in 1..Len(entries) : entries[i][1] = k /\
                   \A j \in 1..Len(entries) : entries[j][1] = k => j <= i][2]]

\* checkKeyDuplicate(key, locale).isDuplicate
checkKeyDuplicate(data, key, locale) ==
    locale \in DOMAIN data /\ key \in DOMAIN data[locale]

\* checkValueDuplicate(value, locale).isDuplicate
checkValueDuplicate(v2k, value, locale) ==
    locale \in DOMAIN v2k /\ normalizeValue(value) \in DOMAIN v2k[locale]

\* DuplicateDetector.getDuplicateValues: the key lists longer than one
getDuplicateValues(v2k, locale) ==
    IF locale \notin DOMAIN v2k THEN {}
    ELSE {[value |-> nv, keys |-> v2k[locale][nv]] :
             nv \in {x \in DOMAIN v2k[locale] : Len(v2k[locale][x]) > 1}}

generateContextualSuffix(baseKey, context) ==
    With(TrimOneUnderscore(CollapseUnderscores(
             ReplaceChars(ToLower(context), LAMBDA c : c \in LowerChars \cup DigitChars, "_"))),
         LAMBDA contextSuffix :
            IF contextSuffix # <<>> THEN baseKey \o <<"_">> \o contextSuffix
            ELSE baseKey \o <<"_","a","l","t">>)

\* Math.min of three numbers
Min3(a, b, c) == IF a <= b /\ a <= c THEN a ELSE IF b <= c THEN b ELSE c

\* matrix[i][j] as the loops of calculateSimilarity fill it
RECURSIVE Matrix(_, _, _, _)
Matrix(a, b, i, j) ==
    IF j = 0 THEN i
    ELSE IF i = 0 THEN j
    ELSE Min3(Matrix(a, b, i - 1, j) + 1,
              Matrix(a, b, i, j - 1) + 1,
              Matrix(a, b, i - 1, j - 1) + (IF a[i] = b[j] THEN 0 ELSE 1))

\* the number 1 - distance / length, kept as the fraction in lowest terms
\* (the divisor is that of length - distance and length, taken on a first
\* argument that is never 0)
GCD(m, n) == CHOOSE d \in 1..(IF m > n THEN m ELSE n) :
                 /\ m % d = 0 /\ n % d = 0
                 /\ \A e \in (d + 1)..(IF m > n THEN m ELSE n) : m % e # 0 \/ n % e # 0
OneMinus(distance, length) ==
    [num |-> (length - distance) \div GCD(length - distance + length, length),
     den |-> length \div GCD(length - distance + length, length)]
Number(n) == [num |-> n, den |-> 1]

\* a similarity that divides by the length of the first string
calculateSimilarity_ByFirst(a, b) ==
    IF Len(a) = 0 THEN (IF Len(b) = 0 THEN Number(1) ELSE Number(0))
    ELSE IF Len(b) = 0 THEN Number(0)
    ELSE OneMinus(IF Matrix(a, b, Len(a), Len(b)) < Len(a)
                  THEN Matrix(a, b, Len(a), Len(b)) ELSE Len(a), Len(a))

\* DuplicateDetector.calculateSimilarity
calculateSimilarity(a, b) ==
    IF Len(a) = 0 THEN (IF Len(b) = 0 THEN Number(1) ELSE Number(0))
    ELSE IF Len(b) = 0 THEN Number(0)
    ELSE OneMinus(Matrix(a, b, Len(a), Len(b)), IF Len(a) > Len(b) THEN Len(a) ELSE Len(b))

-----------------------------------------------------------------------------
(* KeyManager *)

\* a validator that forgets the keys it is told about
markKeyAsUsed_Forget(used, key) == used

\* KeyValidator.markKeyAsUsed
markKeyAsUsed(used, key) == used \cup {key}

\* a validator that is not told the keys of the loaded translations
addExistingKeys_None(used, keys) == used

\* KeyValidator.addExistingKeys
addExistingKeys(used, keys) == used \cup keys

\* KeyManager.handleKeyDuplicate
handleKeyDuplicate(key, context, used) ==
    With(generateContextualSuffix(key, context), LAMBDA contextualKey :
        IF context # <<>> /\ contextualKey \notin used THEN contextualKey
        ELSE UniqueFrom(key, key \o <<"_">> \o NumStr(1), 2, used))

\* KeyManager.processTextForKey on the state st = [gen, val, data, v2k]:
\* what it returns and the used-key sets it leaves
processTextForKey(st, text, locale, context, o, r) ==
    With(generateKey(text, context, o, st.gen), LAMBDA generated :
    With(isValid(generated, r, st.val), LAMBDA valid :
    With(IF valid THEN generated ELSE normalizeKey(generated, r, st.val), LAMBDA normalized :
    With(checkKeyDuplicate(st.data, normalized, locale), LAMBDA keyDup :
    With(IF keyDup THEN handleKeyDuplicate(normalized, context, st.val) ELSE normalized,
         LAMBDA finalKey :
        [ generatedKey |-> generated,
          valid |-> valid,
          normalized |-> normalized,
          keyDup |-> keyDup,
          valueDup |-> checkValueDuplicate(st.v2k, text, locale),
          finalKey |-> finalKey,
          gen |-> st.gen \cup {generated},
          val |-> markKeyAsUsed(st.val, finalKey) ])))))

\* KeyManager.generateKeys: the loop over the matches, each resolved in locale
\* 'en'.  processTextForKey throws where its generateKey throws; the catch
\* block then calls generateKey on the same match, and what that throws leaves
\* generateKeys
RECURSIVE generateKeys(_, _, _, _)
generateKeys(st, matches, o, r) ==
    IF matches = <<>> THEN [ok |-> TRUE, keys |-> <<>>, gen |-> st.gen, val |-> st.val]
    ELSE IF generateKeyThrows(matches[1].text, matches[1].context)
    THEN IF generateKeyThrows(matches[1].text, matches[1].context)
         THEN [ok |-> FALSE, keys |-> <<>>, gen |-> st.gen, val |-> st.val]
         ELSE With(generateKey(matches[1].text, matches[1].context, o, st.gen),
                   LAMBDA fallbackKey :
                  With(generateKeys([st EXCEPT !.gen = st.gen \cup {fallbackKey}],
                                    Tail(matches), o, r), LAMBDA rest :
                      [rest EXCEPT !.keys = IF rest.ok THEN <<fallbackKey>> \o rest.keys
                                            ELSE <<>>]))
    ELSE With(processTextForKey(st, matches[1].text, <<"e","n">>, matches[1].context, o, r),
              LAMBDA one :
             With(generateKeys([st EXCEPT !.gen = one.gen, !.val = one.val],
                               Tail(matches), o, r), LAMBDA rest :
                 [rest EXCEPT !.keys = IF rest.ok THEN <<one.finalKey>> \o rest.keys
                                       ELSE <<>>]))

vars == <<rules, valUsed, nPc, nIn, nOut, nOut2, nValid, str1, str2, simOut,
          recoveryAttempts, recoveryOptions, recoveryCalls, invoked,
          options, genUsed, ddData, ddV2K, kmKeys, kmSeeded, kmLast, kmOps,
          files, backups, createBackups, report, lastOp, stOps, faults>>

SimIdle == str1 = <<>> /\ str2 = <<>> /\ simOut = <<>>
ErIdle ==
    /\ recoveryAttempts = 0
    /\ recoveryOptions = [maxRetries |-> 3, retryDelay |-> 1000, strategy |-> TRUE]
    /\ recoveryCalls = <<>>
    /\ invoked = 0
NormIdle ==
    /\ nPc = "idle" /\ nIn = <<>> /\ nOut = <<>> /\ nOut2 = <<>> /\ nValid = FALSE
    /\ SimIdle
    /\ ErIdle

\* the store before any file exists and before any call
NoFile == [kind |-> "absent"]

StoreIdle ==
    /\ files = [l \in {<<"e","n">>, <<"f","a">>} |-> NoFile]
    /\ backups = <<>>
    /\ createBackups = TRUE
    /\ report = [l \in {<<"e","n">>, <<"f","a">>} |-> <<>>]
    /\ lastOp = [op |-> "new"]
    /\ stOps = 0
    /\ faults = 0

KmState == [gen |-> genUsed, val |-> valUsed, data |-> ddData, v2k |-> ddV2K]

MaxKmOps == 3

L_en == <<"e","n">>
L_fa == <<"f","a">>
KmLocales == {L_en, L_fa}

T_salam == <<"fa_s","fa_l","fa_a","fa_m">>
T_A == <<"A">>
T_punct == <<"!">>
K_hello == <<"h","e","l","l","o">>
K_hello_1 == K_hello \o <<"_","1">>
K_a_key == <<"a","_","k","e","y">>
Ctx_btn == <<"b","t","n">>
Ctx_dash == <<"-">>

KmTexts == {T_salam, T_A}
KmContexts == {<<>>, Ctx_btn, Ctx_dash}
KmSeedKeys == {K_hello, K_a_key}
KmSeedValues == {T_salam}

\* data handed to loadExisting: per locale the entries of its file, in file order
KmDataSets ==
    { [l \in {L_en} |-> << <<K_hello, T_salam>>, <<K_hello_1, T_A>> >>],
      [l \in {L_en, L_fa} |-> IF l = L_en THEN << <<K_a_key, T_A>> >>
                              ELSE << <<K_hello \o <<"_">> \o Ctx_btn, T_salam>> >>] }

Match(text, context) == [text |-> text, context |-> context]

\* the batches handed to generateKeys
KmBatches ==
    { <<>>,
      << Match(T_salam, <<>>), Match(T_salam, <<>>) >>,
      << Match(T_salam, Ctx_btn), Match(T_salam, Ctx_btn), Match(T_salam, <<>>) >>,
      << Match(T_punct, <<>>), Match(T_punct, Ctx_btn), Match(T_punct, <<>>) >>,
      << Match(T_A, Ctx_dash), Match(T_salam, Ctx_dash) >>,
      << Match(T_A, <<>>), Match(NotAString, <<>>), Match(T_salam, <<>>) >> }

KmOptionSets ==
    { [maxLength |-> GenDefaultMaxLength, useContext |-> TRUE, prefix |-> <<>>],
      [maxLength |-> GenDefaultMaxLength, useContext |-> FALSE, prefix |-> <<>>] }

InitKM ==
    /\ NormIdle
    /\ StoreIdle
    /\ rules = DEFAULT_KEY_RULES
    /\ valUsed = {}
    /\ options \in KmOptionSets
    /\ genUsed = {}
    /\ ddData = EmptyMap
    /\ ddV2K = EmptyMap
    /\ kmKeys = <<>>
    /\ kmSeeded = {}
    /\ kmLast = [op |-> "new"]
    /\ kmOps = 0

\* KeyManager.loadExistingTranslations
LoadExisting(ds) ==
    LET allKeys == UNION {{ds[l][i][1] : i \in 1..Len(ds[l])} : l \in DOMAIN ds}
    IN  /\ kmOps < MaxKmOps
        /\ ddData' = [l \in DOMAIN ds |-> BuildLocaleMap(ds[l])]
        /\ ddV2K' = [l \in DOMAIN ds |-> BuildValueMap(ds[l], Len(ds[l]))]
        /\ valUsed' = addExistingKeys(valUsed, allKeys)
        /\ genUsed' = genUsed \cup allKeys
        /\ kmSeeded' = kmSeeded \cup allKeys
        /\ kmLast' = [op |-> "loadExisting"]
        /\ kmOps' = kmOps + 1
        /\ UNCHANGED <<rules, options, kmKeys>>
        /\ UNCHANGED <<normVars, storeVars>>

\* KeyManager.addTranslationEntry
AddEntry(key, value, locale) ==
    LET localeData == IF locale \in DOMAIN ddData THEN ddData[locale] ELSE EmptyMap
        valueMap == IF locale \in DOMAIN ddV2K THEN ddV2K[locale] ELSE EmptyMap
    IN  /\ kmOps < MaxKmOps
        /\ ddData' = MapSet(ddData, locale, MapSet(localeData, key, value))
        /\ ddV2K' = MapSet(ddV2K, locale, PushKey(valueMap, value, key))
        /\ valUsed' = markKeyAsUsed(valUsed, key)
        /\ kmSeeded' = kmSeeded \cup {key}
        /\ kmLast' = [op |-> "addEntry", key |-> key, locale |-> locale]
        /\ kmOps' = kmOps + 1
        /\ UNCHANGED <<rules, options, genUsed, kmKeys>>
        /\ UNCHANGED <<normVars, storeVars>>

\* KeyManager.processTextForKey
Resolve(text, locale, context) ==
    /\ kmOps < MaxKmOps
    /\ \E res \in {processTextForKey(KmState, text, locale, context, options, rules)} :
        /\ genUsed' = res.gen
        /\ valUsed' = res.val
        /\ kmKeys' = Append(kmKeys, res.finalKey)
        /\ kmLast' = [ op |-> "resolve", n |-> 1, text |-> text, locale |-> locale,
                       context |-> context, generatedKey |-> res.generatedKey,
                       valid |-> res.valid, normalized |-> res.normalized,
                       keyDup |-> res.keyDup, valueDup |-> res.valueDup ]
        /\ kmOps' = kmOps + 1
        /\ UNCHANGED <<rules, options, ddData, ddV2K, kmSeeded>>
        /\ UNCHANGED <<normVars, storeVars>>

\* KeyManager.generateKeys
ResolveBatch(matches) ==
    /\ kmOps < MaxKmOps
    /\ \E res \in {generateKeys(KmState, matches, options, rules)} :
        /\ genUsed' = res.gen
        /\ valUsed' = res.val
        /\ kmKeys' = kmKeys \o res.keys
        /\ kmLast' = [op |-> "resolveBatch", n |-> Len(res.keys), ok |-> res.ok,
                       asked |-> Len(matches)]
        /\ kmOps' = kmOps + 1
        /\ UNCHANGED <<rules, options, ddData, ddV2K, kmSeeded>>
        /\ UNCHANGED <<normVars, storeVars>>

\* the three components as their constructors leave them
NewKmState == [gen |-> {}, val |-> {}, data |-> EmptyMap, v2k |-> EmptyMap]

\* a reset that leaves the generator's used keys in place
reset_KeepGenerator(st) == [NewKmState EXCEPT !.gen = st.gen]

\* KeyManager.reset: resetUsedKeys, clear and clearUsedKeys
reset(st) == [gen |-> {}, val |-> {}, data |-> EmptyMap, v2k |-> EmptyMap]

\* KeyManager.reset
Reset ==
    /\ kmOps < MaxKmOps
    /\ genUsed' = reset(KmState).gen
    /\ ddData' = reset(KmState).data
    /\ ddV2K' = reset(KmState).v2k
    /\ valUsed' = reset(KmState).val
    /\ kmKeys' = <<>>
    /\ kmSeeded' = {}
    /\ kmLast' = [op |-> "reset", dirty |-> KmState # NewKmState]
    /\ kmOps' = kmOps + 1
    /\ UNCHANGED <<rules, options>>
    /\ UNCHANGED <<normVars, storeVars>>

NextKM ==
    \/ \E ds \in KmDataSets : LoadExisting(ds)
    \/ \E k \in KmSeedKeys, v \in KmSeedValues, l \in KmLocales : AddEntry(k, v, l)
    \/ \E t \in KmTexts, l \in KmLocales, c \in KmContexts : Resolve(t, l, c)
    \/ \E ms \in KmBatches : ResolveBatch(ms)
    \/ Reset

-----------------------------------------------------------------------------
(* KeyGenerator.generateKey on its own, under short length ceilings *)

MaxGenLength == 5
MaxGenOps == 2
\* the least keyGeneration.maxLength the configuration schema accepts
MinConfigMaxLength == 10
T_A_B == <<"A"," ","B">>
T_salam_A_B_A == T_salam \o <<" ","A"," ","B"," ","A">>
GenTexts == {T_salam, T_A_B, T_punct, T_salam_A_B_A}
GenContexts == {<<>>, Ctx_btn}
GenOptionSets ==
    [maxLength : 1..MaxGenLength \cup {MinConfigMaxLength},
     useContext : BOOLEAN, prefix : {<<>>, <<"p">>}]

InitGen ==
    /\ NormIdle
    /\ StoreIdle
    /\ rules = DEFAULT_KEY_RULES
    /\ valUsed = {}
    /\ options \in GenOptionSets
    /\ genUsed = {}
    /\ ddData = EmptyMap
    /\ ddV2K = EmptyMap
    /\ kmKeys = <<>>
    /\ kmSeeded = {}
    /\ kmLast = [op |-> "new"]
    /\ kmOps = 0

\* KeyGenerator.generateKey
GenerateKey(text, context) ==
    /\ kmOps < MaxGenOps
    /\ \E key \in {generateKey(text, context, options, genUsed)} :
        /\ genUsed' = genUsed \cup {key}
        /\ kmLast' = [op |-> "generateKey", text |-> text, context |-> context, key |-> key]
    /\ kmOps' = kmOps + 1
    /\ UNCHANGED <<rules, valUsed, options, ddData, ddV2K, kmKeys, kmSeeded>>
    /\ UNCHANGED <<normVars, storeVars>>

NextGen == \E text \in GenTexts, context \in GenContexts : GenerateKey(text, context)

SpecGen == InitGen /\ [][NextGen]_vars

-----------------------------------------------------------------------------
(* Inputs of the validator checks *)

MaxInputLen == 3
ShortMaxLength == 6
ShortMinLength == 3

InputChars == {"a", "1", "_", "!", "A"}

RECURSIVE StringsUpTo(_)
StringsUpTo(n) ==
    IF n = 0 THEN {<<>>}
    ELSE LET shorter == StringsUpTo(n - 1)
         IN  shorter \cup {Append(s, c) : s \in {t \in shorter : Len(t) = n - 1}, c \in InputChars}

Rep(s, n) == [i \in 1..(n * Len(s)) |-> s[((i - 1) % Len(s)) + 1]]

S_invalid_key == <<"i","n","v","a","l","i","d","_","k","e","y">>
S_a_key == <<"a","_","k","e","y">>
S_key == <<"k","e","y">>
S_if == <<"i","f">>

\* strings longer than the default maxLength, with and without segments
LongInputs ==
    { Rep(<<"a">>, DefaultMaxLength + 1),
      Rep(<<"a","b","c","_">>, (DefaultMaxLength \div 4) + 1),
      Rep(<<"1">>, DefaultMaxLength + 1),
      <<"a","_">> \o Rep(<<"b">>, DefaultMaxLength) }

NormInputs ==
    StringsUpTo(MaxInputLen)
        \cup LongInputs
        \cup { S_if, S_key, S_invalid_key, <<"fa_s","fa_l">>, <<"n","e","w">>,
               <<"a","b","_","c","d","_","e","f">>, <<"I","f">> }

UsedPool == { S_invalid_key, S_a_key, <<"a","_","k","e","y","_","1">>, <<"a","a">> }

RuleSets ==
    { DEFAULT_KEY_RULES,
      [DEFAULT_KEY_RULES EXCEPT !.maxLength = ShortMaxLength, !.minLength = ShortMinLength] }

-----------------------------------------------------------------------------
(* normalize, validate the result, normalize the result again *)

KmIdle ==
    /\ options = [maxLength |-> GenDefaultMaxLength, useContext |-> TRUE, prefix |-> <<>>]
    /\ genUsed = {} /\ ddData = EmptyMap /\ ddV2K = EmptyMap
    /\ kmKeys = <<>> /\ kmSeeded = {} /\ kmLast = [op |-> "new"] /\ kmOps = 0

InitNorm ==
    /\ KmIdle
    /\ SimIdle
    /\ ErIdle
    /\ StoreIdle
    /\ rules \in RuleSets
    /\ valUsed \in SUBSET UsedPool
    /\ nPc = "input"
    /\ nIn \in NormInputs
    /\ nOut = <<>>
    /\ nOut2 = <<>>
    /\ nValid = FALSE

Normalize ==
    /\ nPc = "input"
    /\ nOut' = normalizeKey(nIn, rules, valUsed)
    /\ nPc' = "normalized"
    /\ UNCHANGED <<rules, valUsed, nIn, nOut2, nValid, simVars, erVars>>
    /\ UNCHANGED <<kmVars, storeVars>>

Validate ==
    /\ nPc = "normalized"
    /\ nValid' = isValid(nOut, rules, valUsed)
    /\ nPc' = "validated"
    /\ UNCHANGED <<rules, valUsed, nIn, nOut, nOut2, simVars, erVars>>
    /\ UNCHANGED <<kmVars, storeVars>>

NormalizeAgain ==
    /\ nPc = "validated"
    /\ nOut2' = normalizeKey(nOut, rules, valUsed)
    /\ nPc' = "done"
    /\ UNCHANGED <<rules, valUsed, nIn, nOut, nValid, simVars, erVars>>
    /\ UNCHANGED <<kmVars, storeVars>>

NextNorm == Normalize \/ Validate \/ NormalizeAgain

-----------------------------------------------------------------------------
(* calculateSimilarity on two strings, both ways round and on each itself *)

MaxSimLen == 3
SimChars == {"a", "b"}
RECURSIVE SimStrings(_)
SimStrings(n) ==
    IF n = 0 THEN {<<>>}
    ELSE LET shorter == SimStrings(n - 1)
         IN  shorter \cup {Append(s, c) : s \in {t \in shorter : Len(t) = n - 1}, c \in SimChars}

InitSim ==
    /\ KmIdle
    /\ StoreIdle
    /\ rules = DEFAULT_KEY_RULES
    /\ valUsed = {}
    /\ nPc = "idle" /\ nIn = <<>> /\ nOut = <<>> /\ nOut2 = <<>> /\ nValid = FALSE
    /\ ErIdle
    /\ str1 \in SimStrings(MaxSimLen)
    /\ str2 \in SimStrings(MaxSimLen)
    /\ simOut = <<>>

Similarity ==
    /\ simOut = <<>>
    /\ simOut' = <<calculateSimilarity(str1, str2), calculateSimilarity(str2, str1),
                   calculateSimilarity(str1, str1)>>
    /\ UNCHANGED <<rules, valUsed, nPc, nIn, nOut, nOut2, nValid, str1, str2, erVars>>
    /\ UNCHANGED <<kmVars, storeVars>>

NextSim == Similarity

SpecSim == InitSim /\ [][NextSim]_vars

-----------------------------------------------------------------------------
(* ErrorRecoveryManager.attemptRecovery for one error key.  A call runs      *)
(* without interruption up to its next await: the retry delay, or the        *)
(* promise of strategy.recover.                                              *)

MaxCalls == 3
RetryLimits == {1, 2}
RetryDelays == {0, 1000}

\* the results attemptRecovery returns
MaxExceeded == [success |-> FALSE, retryable |-> FALSE, by |-> "max retries"]
NoStrategy == [success |-> FALSE, retryable |-> FALSE, by |-> "no strategy"]
RecoverResults ==
    {[success |-> TRUE, retryable |-> FALSE, by |-> "strategy"],
     [success |-> FALSE, retryable |-> FALSE, by |-> "strategy"],
     [success |-> FALSE, retryable |-> TRUE, by |-> "catch"]}

InitRecovery ==
    /\ KmIdle
    /\ StoreIdle
    /\ SimIdle
    /\ rules = DEFAULT_KEY_RULES
    /\ valUsed = {}
    /\ nPc = "idle" /\ nIn = <<>> /\ nOut = <<>> /\ nOut2 = <<>> /\ nValid = FALSE
    /\ recoveryAttempts = 0
    /\ recoveryOptions \in [maxRetries : RetryLimits, retryDelay : RetryDelays,
                            strategy : BOOLEAN]
    /\ recoveryCalls = <<>>
    /\ invoked = 0

ErFrame ==
    /\ UNCHANGED <<rules, valUsed, nPc, nIn, nOut, nOut2, nValid, simVars, recoveryOptions>>
    /\ UNCHANGED <<kmVars, storeVars>>

Returned(result, attempts) == [pc |-> "returned", attempts |-> attempts, result |-> result]

\* attemptRecovery from its start to its first await or return
AttemptRecovery ==
    /\ Len(recoveryCalls) < MaxCalls
    /\ \E attempts \in {recoveryAttempts} :
        IF attempts >= recoveryOptions.maxRetries
        THEN /\ recoveryCalls' = Append(recoveryCalls, Returned(MaxExceeded, attempts))
             /\ UNCHANGED <<recoveryAttempts, invoked>>
        ELSE IF ~recoveryOptions.strategy
        THEN /\ recoveryCalls' = Append(recoveryCalls, Returned(NoStrategy, attempts))
             /\ UNCHANGED <<recoveryAttempts, invoked>>
        ELSE IF attempts > 0 /\ recoveryOptions.retryDelay > 0
        THEN /\ recoveryCalls' = Append(recoveryCalls, [pc |-> "delay", attempts |-> attempts])
             /\ UNCHANGED <<recoveryAttempts, invoked>>
        ELSE /\ recoveryCalls' = Append(recoveryCalls, [pc |-> "recover", attempts |-> attempts])
             /\ recoveryAttempts' = attempts + 1
             /\ invoked' = invoked + 1
    /\ ErFrame

\* the retry delay of call c is over: the counter is set and the strategy invoked
AfterDelay(c) ==
    /\ c \in 1..Len(recoveryCalls)
    /\ recoveryCalls[c].pc = "delay"
    /\ recoveryAttempts' = recoveryCalls[c].attempts + 1
    /\ invoked' = invoked + 1
    /\ recoveryCalls' = [recoveryCalls EXCEPT ![c].pc = "recover"]
    /\ ErFrame

\* strategy.recover of call c settles with result (a rejection goes to the catch)
AfterRecover(c, result) ==
    /\ c \in 1..Len(recoveryCalls)
    /\ recoveryCalls[c].pc = "recover"
    /\ recoveryAttempts' = IF result.success THEN 0 ELSE recoveryAttempts
    /\ invoked' = IF result.success THEN 0 ELSE invoked
    /\ recoveryCalls' = [recoveryCalls EXCEPT ![c] = Returned(result, recoveryCalls[c].attempts)]
    /\ ErFrame

\* ErrorRecoveryManager.resetRecoveryAttempts
ResetRecoveryAttempts ==
    /\ recoveryAttempts # 0
    /\ recoveryAttempts' = 0
    /\ invoked' = 0
    /\ UNCHANGED recoveryCalls
    /\ ErFrame

NextRecovery ==
    \/ AttemptRecovery
    \/ \E c \in 1..MaxCalls : AfterDelay(c)
    \/ \E c \in 1..MaxCalls, result \in RecoverResults : AfterRecover(c, result)
    \/ ResetRecoveryAttempts

SpecRecovery == InitRecovery /\ [][NextRecovery]_vars

SpecNorm == InitNorm /\ [][NextNorm]_vars

SpecKM == InitKM /\ [][NextKM]_vars

-----------------------------------------------------------------------------
(* JSONManager: one JSON file per locale.  A file is absent, a JSON object  *)
(* written as the sequence of its <<key, value>> members in file order, or  *)
(* the torn text a failed fs.writeFile left behind.                         *)

Locales == {L_en, L_fa}

JsonFile(entries) == [kind |-> "json", entries |-> entries]
TornFile(entries) == [kind |-> "torn", entries |-> entries]

\* Object.keys of a parsed object: the member names in file order, each once
KeysOf(entries0) ==
    With(entries0, LAMBDA entries :
        LET first == {i \in 1..Len(entries) :
                         \A j \in 1..(i - 1) : entries[j][1] # entries[i][1]}
            ix == SelectSeq([i \in 1..Len(entries) |-> i], LAMBDA i : i \in first)
        IN  [n \in 1..Len(ix) |-> entries[ix[n]][1]])

\* JSON.parse of an object: a later member of the same name wins
ParseEntries(entries0) ==
    With(entries0, LAMBDA entries :
        [k \in {entries[i][1] : i \in 1..Len(entries)} |->
            LET last == CHOOSE i \in 1..Len(entries) :
                            /\ entries[i][1] = k
                            /\ \A j \in (i + 1)..Len(entries) : entries[j][1] # k
            IN  entries[last][2]])

\* JSONManager.sortTranslations followed by JSON.stringify
sortTranslations(translations0) ==
    With(translations0, LAMBDA translations :
        LET keys == DOMAIN translations
            rank(k) == 1 + Cardinality({j \in keys : StrLess(j, k)})
        IN  [n \in 1..Cardinality(keys) |->
                LET k == CHOOSE x \in keys : rank(x) = n IN <<k, translations[k]>>])

\* a read that takes a file it cannot parse for an empty store
readTranslationFile_Lenient(dir, locale) ==
    With(dir[locale], LAMBDA f :
        IF f.kind = "json"
        THEN [ok |-> TRUE, map |-> ParseEntries(f.entries), keys |-> KeysOf(f.entries)]
        ELSE [ok |-> TRUE, map |-> EmptyMap, keys |-> <<>>])

\* JSONManager.readTranslationFile: a missing file reads as {}, an
\* unparseable file throws; keys are the Object.keys order of the result
readTranslationFile(dir, locale) ==
    With(dir[locale], LAMBDA f :
        IF f.kind = "absent" THEN [ok |-> TRUE, map |-> EmptyMap, keys |-> <<>>]
        ELSE IF f.kind = "json"
             THEN [ok |-> TRUE, map |-> ParseEntries(f.entries), keys |-> KeysOf(f.entries)]
             ELSE [ok |-> FALSE, map |-> EmptyMap, keys |-> <<>>])

\* what the file write of one call does: it completes, it fails before
\* anything reaches the file, or it fails after at most n members were written
WriteOk == [kind |-> "ok", n |-> 0]
WriteFail == [kind |-> "fail", n |-> 0]
WriteTorn(n) == [kind |-> "torn", n |-> n]

\* JSONManager.writeTranslationFile
writeTranslationFile(dir0, locale, translations, w) ==
    With(dir0, LAMBDA dir :
        With(sortTranslations(translations), LAMBDA sorted :
            IF w.kind = "ok"
            THEN [ok |-> TRUE, dir |-> [dir EXCEPT ![locale] = JsonFile(sorted)]]
            ELSE IF w.kind = "fail"
                 THEN [ok |-> FALSE, dir |-> dir]
                 ELSE [ok |-> FALSE,
                       dir |-> [dir EXCEPT ![locale] = TornFile(Prefix(sorted, w.n))]]))

\* a merge in which the existing value wins on a key collision
Merge_ExistingWins(existing0, newEntries0) ==
    With(existing0, LAMBDA existing :
        With(newEntries0, LAMBDA newEntries :
            [k \in DOMAIN existing \cup DOMAIN newEntries |->
                IF k \in DOMAIN existing THEN existing[k] ELSE newEntries[k]]))

\* { ...existingTranslations, ...newEntries }
Merge(existing0, newEntries0) ==
    With(existing0, LAMBDA existing :
        With(newEntries0, LAMBDA newEntries :
            [k \in DOMAIN existing \cup DOMAIN newEntries |->
                IF k \in DOMAIN newEntries THEN newEntries[k] ELSE existing[k]]))

\* JSONManager.updateTranslationFile
updateTranslationFile(dir0, locale, newEntries, w) ==
    With(dir0, LAMBDA dir :
        With(readTranslationFile(dir, locale), LAMBDA existing :
            IF ~existing.ok THEN [ok |-> FALSE, dir |-> dir]
            ELSE writeTranslationFile(dir, locale, Merge(existing.map, newEntries), w)))

\* JSONManager.addTranslationEntry
addTranslationEntry(dir, entry, w) ==
    updateTranslationFile(dir, entry.locale, [k \in {entry.key} |-> entry.value], w)

-----------------------------------------------------------------------------
(* DuplicateValueDetector *)

\* a scan that also reports the values held by a single key
findDuplicatesInLocale_Singles(dir, locale) ==
    With(readTranslationFile(dir, locale), LAMBDA t :
        IF ~t.ok THEN <<>>
        ELSE LET first == {i \in 1..Len(t.keys) :
                              \A j \in 1..(i - 1) : t.map[t.keys[j]] # t.map[t.keys[i]]}
                 ix == SelectSeq([i \in 1..Len(t.keys) |-> i], LAMBDA i : i \in first)
             IN  [n \in 1..Len(ix) |->
                     [value |-> t.map[t.keys[ix[n]]],
                      keys |-> SelectSeq(t.keys,
                                  LAMBDA k : t.map[k] = t.map[t.keys[ix[n]]])]])

\* DuplicateValueDetector.findDuplicatesInLocale: the keys of the file grouped
\* by their value, groups of two or more keys only; a read error gives []
findDuplicatesInLocale(dir, locale) ==
    With(readTranslationFile(dir, locale), LAMBDA t :
        IF ~t.ok THEN <<>>
        ELSE LET first == {i \in 1..Len(t.keys) :
                              \A j \in 1..(i - 1) : t.map[t.keys[j]] # t.map[t.keys[i]]}
                 ix == SelectSeq([i \in 1..Len(t.keys) |-> i], LAMBDA i : i \in first)
                 groups == [n \in 1..Len(ix) |->
                               [value |-> t.map[t.keys[ix[n]]],
                                keys |-> SelectSeq(t.keys,
                                            LAMBDA k : t.map[k] = t.map[t.keys[ix[n]]])]]
             IN  SelectSeq(groups, LAMBDA g : Len(g.keys) > 1))

\* DuplicateValueDetector.scanForDuplicateValues: duplicatesByLocale
scanForDuplicateValues(dir) == [l \in Locales |-> findDuplicatesInLocale(dir, l)]

Range(seq) == {seq[i] : i \in 1..Len(seq)}

Delete(m0, ks) == With(m0, LAMBDA m : [k \in DOMAIN m \ ks |-> m[k]])

\* a consolidation that removes the target key with the others
performConsolidation_DropTarget(dir, locale, translations, duplicateValue, targetKey, w) ==
    writeTranslationFile(dir, locale,
        Delete(MapSet(translations, targetKey, duplicateValue.value),
               Range(duplicateValue.keys)), w)

\* DuplicateValueDetector.performConsolidation
performConsolidation(dir, locale, translations, duplicateValue, targetKey, w) ==
    writeTranslationFile(dir, locale,
        Delete(MapSet(translations, targetKey, duplicateValue.value),
               Range(duplicateValue.keys) \ {targetKey}), w)

\* DuplicateValueDetector.performRename
performRename(dir, locale, translations, duplicateValue, newKey, w) ==
    writeTranslationFile(dir, locale,
        Delete(MapSet(translations, newKey, duplicateValue.value),
               Range(duplicateValue.keys)), w)

\* DuplicateValueDetector.consolidateDuplicates
consolidateDuplicates(dir0, locale, duplicateValue, decision, w) ==
    With(dir0, LAMBDA dir :
        With(readTranslationFile(dir, locale), LAMBDA t :
            IF ~t.ok THEN [ok |-> FALSE, dir |-> dir]
            ELSE IF decision.action = "consolidate"
                 THEN performConsolidation(dir, locale, t.map, duplicateValue, decision.key, w)
            ELSE IF decision.action = "rename"
                 THEN performRename(dir, locale, t.map, duplicateValue, decision.key, w)
            ELSE [ok |-> TRUE, dir |-> dir]))

-----------------------------------------------------------------------------
(* BackupSystem.  A backup is its manifest (id, timestamp, files), the files *)
(* of its snapshot directory (snap) and, for reference, the live directory   *)
(* at the time it was taken (live).                                          *)

\* a sequence of the members of a set of strings, in code unit order
SortedSeq(S0) ==
    With(S0, LAMBDA S :
        [n \in 1..Cardinality(S) |->
            CHOOSE x \in S : 1 + Cardinality({y \in S : StrLess(y, x)}) = n])

\* BackupSystem.getTranslationFiles: the *.json files of the directory
getTranslationFiles(dir) == SortedSeq({l \in Locales : dir[l].kind # "absent"})

\* a manifest that lists every file found, copied or not
backedUpFiles_All(dir, failed) == getTranslationFiles(dir)

\* the file names createBackup pushes on backedUpFiles: those whose copy succeeded
backedUpFiles(dir, failed) ==
    SelectSeq(getTranslationFiles(dir), LAMBDA n : n \notin failed)

\* the files fs.copyFile put into the snapshot directory
copiedFiles(dir, failed) ==
    [n \in {l \in Locales : dir[l].kind # "absent" /\ l \notin failed} |-> dir[n]]

\* what the environment does to one createBackup: the copies in failed fail
\* and are skipped with a warning, infoOk tells whether backup-info.json is
\* written, tick how far the clock has moved since the newest backup was made
BackupOk == [failed |-> {}, infoOk |-> TRUE, tick |-> 1]

\* new Date() when the manifest is built: not before any backup there is
Now(bks, tick) ==
    IF Len(bks) = 0 THEN tick
    ELSE tick + (CHOOSE t \in {bks[i].timestamp : i \in 1..Len(bks)} :
                    \A i \in 1..Len(bks) : bks[i].timestamp <= t)

\* BackupSystem.createBackup; without backup-info.json the directory is no
\* backup.  backupId is what generateBackupId returned.
createBackup(dir, bks, b, backupId) ==
    IF ~b.infoOk THEN [ok |-> FALSE, backups |-> bks, id |-> 0]
    ELSE [ok |-> TRUE,
          backups |-> Append(bks, [id |-> backupId,
                                   timestamp |-> Now(bks, b.tick),
                                   files |-> backedUpFiles(dir, b.failed),
                                   snap |-> copiedFiles(dir, b.failed),
                                   live |-> dir]),
          id |-> backupId]

HasBackup(bks, id) == \E i \in 1..Len(bks) : bks[i].id = id
BackupOf(bks, id) == bks[CHOOSE i \in 1..Len(bks) : bks[i].id = id]

\* a restore that passes over the files the snapshot lacks
restoredFiles_SkipMissing(backupInfo, failAt) ==
    LET stop == IF failAt = 0 THEN Len(backupInfo.files) + 1 ELSE failAt
    IN  [ok |-> failAt = 0,
         names |-> {backupInfo.files[i] : i \in 1..(stop - 1)} \cap DOMAIN backupInfo.snap]

\* the files restoreBackup copies back before it returns or throws: it
\* throws at the first file whose copy fails (failAt, 0 for none) or that the
\* snapshot lacks
restoredFiles(backupInfo, failAt) ==
    LET bad == {i \in 1..Len(backupInfo.files) :
                   i = failAt \/ backupInfo.files[i] \notin DOMAIN backupInfo.snap}
        stop == IF bad = {} THEN Len(backupInfo.files) + 1
                ELSE CHOOSE i \in bad : \A j \in bad : i <= j
    IN  [ok |-> bad = {}, names |-> {backupInfo.files[i] : i \in 1..(stop - 1)}]

\* a restore that reports success without copying anything back
restoreBackup_Skip(dir0, bks, id, failAt) ==
    [ok |-> HasBackup(bks, id) /\ restoredFiles(BackupOf(bks, id), failAt).ok, dir |-> dir0]

\* a restore that makes the directory a mirror of the snapshot
restoreBackup_Mirror(dir0, bks, id, failAt) ==
    With(dir0, LAMBDA dir :
        IF ~HasBackup(bks, id) THEN [ok |-> FALSE, dir |-> dir]
        ELSE With(BackupOf(bks, id), LAMBDA backupInfo :
                 With(restoredFiles(backupInfo, failAt), LAMBDA r :
                     [ok |-> r.ok,
                      dir |-> [n \in Locales |->
                                  IF n \in r.names THEN backupInfo.snap[n] ELSE NoFile]])))

\* BackupSystem.restoreBackup
restoreBackup(dir0, bks, id, failAt) ==
    With(dir0, LAMBDA dir :
        IF ~HasBackup(bks, id) THEN [ok |-> FALSE, dir |-> dir]
        ELSE With(BackupOf(bks, id), LAMBDA backupInfo :
                 With(restoredFiles(backupInfo, failAt), LAMBDA r :
                     [ok |-> r.ok,
                      dir |-> [n \in Locales |->
                                  IF n \in r.names THEN backupInfo.snap[n] ELSE dir[n]]])))

\* BackupSystem.listBackups: the manifests, newest first; Array.prototype.sort
\* is stable, so backups of one instant stay in the order readdir gave them
listBackups(bks) ==
    [n \in 1..Len(bks) |->
        bks[CHOOSE i \in 1..Len(bks) :
                n = 1 + Cardinality({j \in 1..Len(bks) :
                                        \/ bks[j].timestamp > bks[i].timestamp
                                        \/ /\ bks[j].timestamp = bks[i].timestamp
                                           /\ j < i})]]

\* BackupSystem.cleanupOldBackups: deleteBackup removes every backup listed
\* after the first keepCount; a deleteBackup that throws (the ids in failed)
\* is logged and the loop goes on
cleanupOldBackups(bks, keepCount, failed) ==
    IF Len(bks) <= keepCount THEN bks
    ELSE SelectSeq(bks, LAMBDA bk :
             \/ bk.id \in failed
             \/ \E n \in 1..keepCount : listBackups(bks)[n].id = bk.id)

-----------------------------------------------------------------------------
(* TranslationManager over one translations directory *)

MaxStoreOps == 3
MaxFaults == 1

K_ab == <<"a","b">>
K_cd == <<"c","d">>
K_bad == <<"A","!">>
V_x == <<"x">>
V_y == <<"y">>
V_X == <<"X">>

Entry(key, value, locale) == [key |-> key, value |-> value, locale |-> locale]
Translations(k1, v1, k2, v2) == [k \in {k1, k2} |-> IF k = k1 THEN v1 ELSE v2]

StoreEntries ==
    {Entry(K_bad, V_x, L_en), Entry(K_cd, V_x, L_fa)}
StoreBatches ==
    {<<Entry(K_ab, V_y, L_en), Entry(K_ab, V_x, L_fa), Entry(K_cd, V_y, L_en)>>}
StoreWrites ==
    {[locale |-> L_fa, translations |-> Translations(K_bad, V_y, K_ab, V_y)]}
StoreUpdates ==
    {[locale |-> L_en, newEntries |-> Translations(K_cd, V_X, K_ab, V_x)]}
Decisions ==
    {[action |-> a, key |-> k] : a \in {"consolidate", "rename"}, k \in {K_ab, K_bad}}
        \cup {[action |-> "keep_separate", key |-> <<>>]}

\* the directories a run starts from: empty, or one locale file
InitDirs ==
    {[l \in Locales |-> NoFile],
     [l \in Locales |-> IF l = L_en
                        THEN JsonFile(sortTranslations(Translations(K_ab, V_x, K_cd, V_x)))
                        ELSE NoFile]}

\* what the environment does during one call: the backup it takes first (b),
\* the file write (w), and for a call with several writes the one that is hit (at)
NoFault == [b |-> BackupOk, w |-> WriteOk, at |-> 1]
\* no failure, but the backup is taken in the instant of the newest one
SameInstant == [b |-> [failed |-> {}, infoOk |-> TRUE, tick |-> 0], w |-> WriteOk, at |-> 1]
TornPoints == {1}
Faulty(writes) ==
    {[b |-> [failed |-> {l}, infoOk |-> TRUE, tick |-> 1], w |-> WriteOk, at |-> 1] :
        l \in Locales}
        \cup {[b |-> [failed |-> {}, infoOk |-> FALSE, tick |-> 1], w |-> WriteOk, at |-> 1]}
        \cup {[b |-> BackupOk, w |-> x, at |-> a] :
                 x \in {WriteFail} \cup {WriteTorn(n) : n \in TornPoints}, a \in 1..writes}
\* only the copy of a file that exists can fail
Env(writes) ==
    {NoFault} \cup (IF faults < MaxFaults
                    THEN {f \in Faulty(writes) :
                             \A l \in f.b.failed : files[l].kind # "absent"}
                    ELSE {})
Faulted(f) == f \notin {NoFault, SameInstant}

NoGroup == [value |-> <<>>, keys |-> <<>>]
NoDecision == [action |-> "none", key |-> <<>>]

LastOp(op, ok, locale, dv, decision, actual, id) ==
    [op |-> op, ok |-> ok, locale |-> locale, value |-> dv.value, keys |-> dv.keys,
     action |-> decision.action, key |-> decision.key, actual |-> actual, id |-> id]

\* a call that goes on to write although its backup failed
autoBackup_IgnoreFailure(dir, bks, flag, b, backupId) ==
    IF flag /\ b.infoOk THEN createBackup(dir, bks, b, backupId)
    ELSE [ok |-> TRUE, backups |-> bks, id |-> 0]

\* the backup a TranslationManager call takes first when createBackups is set
autoBackup(dir, bks, flag, b, backupId) ==
    IF flag THEN createBackup(dir, bks, b, backupId)
    ELSE [ok |-> TRUE, backups |-> bks, id |-> 0]

CanCall == stOps < MaxStoreOps

\* generateBackupId: a name no earlier backup has
NewId == stOps + 1

Called(faulted) ==
    /\ stOps' = stOps + 1
    /\ faults' = IF faulted THEN faults + 1 ELSE faults
    /\ UNCHANGED <<createBackups, valVars, normVars, kmVars>>

InitStore ==
    /\ NormIdle
    /\ KmIdle
    /\ rules = DEFAULT_KEY_RULES
    /\ valUsed = {}
    /\ files \in InitDirs
    /\ backups = <<>>
    /\ createBackups \in BOOLEAN
    /\ report = [l \in Locales |-> <<>>]
    /\ lastOp = [op |-> "new"]
    /\ stOps = 0
    /\ faults = 0

\* TranslationManager.addTranslation
AddTranslation(entry, f) ==
    /\ CanCall
    /\ \E bk \in {autoBackup(files, backups, createBackups, f.b, NewId)} :
       \E res \in {IF bk.ok THEN addTranslationEntry(files, entry, f.w)
                   ELSE [ok |-> FALSE, dir |-> files]} :
        /\ files' = res.dir
        /\ backups' = bk.backups
        /\ lastOp' = LastOp("addTranslation", res.ok, entry.locale,
                            NoGroup, NoDecision, FALSE, bk.id)
    /\ UNCHANGED report
    /\ Called(Faulted(f))

\* the locales of a batch in the order entriesByLocale first sees them
LocaleOrder(entries) == KeysOf([i \in 1..Len(entries) |-> <<entries[i].locale, i>>])

\* entriesByLocale.get(locale)
EntriesFor(entries, locale) ==
    ParseEntries(SelectSeq([i \in 1..Len(entries) |-> <<entries[i].key, entries[i].value>>],
                           LAMBDA e : \E i \in 1..Len(entries) :
                               /\ entries[i].locale = locale
                               /\ e = <<entries[i].key, entries[i].value>>))

\* the loop of addTranslations over entriesByLocale, from the i-th locale on
RECURSIVE UpdateEach(_, _, _, _, _)
UpdateEach(dir0, entries, order, i, f) ==
    With(dir0, LAMBDA dir :
        IF i > Len(order) THEN [ok |-> TRUE, dir |-> dir]
        ELSE With(updateTranslationFile(dir, order[i], EntriesFor(entries, order[i]),
                                        IF i = f.at THEN f.w ELSE WriteOk),
                  LAMBDA r : IF r.ok THEN UpdateEach(r.dir, entries, order, i + 1, f)
                             ELSE r))

\* TranslationManager.addTranslations
AddTranslations(entries, f) ==
    /\ CanCall
    /\ \E bk \in {autoBackup(files, backups, createBackups, f.b, NewId)} :
       \E res \in {IF bk.ok THEN UpdateEach(files, entries, LocaleOrder(entries), 1, f)
                   ELSE [ok |-> FALSE, dir |-> files]} :
        /\ files' = res.dir
        /\ backups' = bk.backups
        /\ lastOp' = LastOp("addTranslations", res.ok, <<>>,
                            NoGroup, NoDecision, FALSE, bk.id)
    /\ UNCHANGED report
    /\ Called(Faulted(f))

\* TranslationManager.writeTranslationFile
WriteTranslationFile(locale, translations, f) ==
    /\ CanCall
    /\ \E bk \in {autoBackup(files, backups, createBackups, f.b, NewId)} :
       \E res \in {IF bk.ok THEN writeTranslationFile(files, locale, translations, f.w)
                   ELSE [ok |-> FALSE, dir |-> files]} :
        /\ files' = res.dir
        /\ backups' = bk.backups
        /\ lastOp' = LastOp("write", res.ok, locale, NoGroup, NoDecision, FALSE, bk.id)
    /\ UNCHANGED report
    /\ Called(Faulted(f))

\* JSONManager.updateTranslationFile called on its own
UpdateTranslationFile(locale, newEntries, f) ==
    /\ stOps < MaxStoreOps
    /\ f.b = BackupOk
    /\ \E res \in {updateTranslationFile(files, locale, newEntries, f.w)} :
        /\ files' = res.dir
        /\ lastOp' = [newEntries |-> newEntries]
                          @@ LastOp("update", res.ok, locale, NoGroup, NoDecision, FALSE, 0)
    /\ UNCHANGED <<backups, report>>
    /\ Called(Faulted(f))

\* TranslationManager.scanForDuplicates
ScanForDuplicates ==
    /\ stOps < MaxStoreOps
    /\ report' = scanForDuplicateValues(files)
    /\ lastOp' = LastOp("scan", TRUE, <<>>, NoGroup, NoDecision, FALSE, 0)
    /\ UNCHANGED <<files, backups>>
    /\ Called(FALSE)

\* the group is what a scan of the locale's file would report now
IsDuplicateGroup(dir, locale, dv) ==
    \E i \in 1..Len(findDuplicatesInLocale(dir, locale)) :
        findDuplicatesInLocale(dir, locale)[i] = dv

\* TranslationManager.consolidateDuplicates with a group the last scan reported
ConsolidateDuplicates(locale, n, decision, f) ==
    /\ CanCall
    /\ n \in 1..Len(report[locale])
    /\ \E dv \in {report[locale][n]} :
       \E bk \in {autoBackup(files, backups, createBackups, f.b, NewId)} :
       \E res \in {IF bk.ok THEN consolidateDuplicates(files, locale, dv, decision, f.w)
                   ELSE [ok |-> FALSE, dir |-> files]} :
        /\ files' = res.dir
        /\ backups' = bk.backups
        /\ lastOp' = LastOp("consolidate", res.ok, locale, dv, decision,
                            IsDuplicateGroup(files, locale, dv), bk.id)
    /\ UNCHANGED report
    /\ Called(Faulted(f))

\* BackupSystem.createBackup called on its own
CreateBackup(f) ==
    /\ stOps < MaxStoreOps
    /\ \E bk \in {createBackup(files, backups, f.b, NewId)} :
        /\ backups' = bk.backups
        /\ lastOp' = LastOp("createBackup", bk.ok, <<>>, NoGroup, NoDecision, FALSE, bk.id)
    /\ UNCHANGED <<files, report>>
    /\ Called(Faulted(f))

\* BackupSystem.restoreBackup; failAt is the file whose copy fails, 0 for none
RestoreBackup(id, failAt) ==
    /\ stOps < MaxStoreOps
    /\ failAt # 0 => /\ faults < MaxFaults
                      /\ HasBackup(backups, id)
                      /\ failAt <= Len(BackupOf(backups, id).files)
    /\ \E res \in {restoreBackup(files, backups, id, failAt)} :
        /\ files' = res.dir
        /\ lastOp' = LastOp("restore", res.ok, <<>>, NoGroup, NoDecision, FALSE, id)
    /\ UNCHANGED <<backups, report>>
    /\ Called(failAt # 0)

\* the environment removes one file from the snapshot directory of a backup
SnapshotFileLost(id, name) ==
    /\ faults < MaxFaults
    /\ HasBackup(backups, id)
    /\ name \in DOMAIN BackupOf(backups, id).snap
    /\ backups' = [i \in 1..Len(backups) |->
                       IF backups[i].id = id
                       THEN [backups[i] EXCEPT !.snap =
                                [n \in DOMAIN backups[i].snap \ {name} |-> backups[i].snap[n]]]
                       ELSE backups[i]]
    /\ lastOp' = LastOp("snapshotFileLost", TRUE, name, NoGroup, NoDecision, FALSE, id)
    /\ faults' = faults + 1
    /\ UNCHANGED <<files, report, stOps, createBackups, valVars, normVars, kmVars>>

\* TranslationManager.cleanupBackups; failed are the backups whose removal fails
CleanupOldBackups(keepCount, failed) ==
    /\ stOps < MaxStoreOps
    /\ failed # {} => /\ faults < MaxFaults
                       /\ \A id \in failed : \E n \in (keepCount + 1)..Len(backups) :
                              listBackups(backups)[n].id = id
    /\ backups' = cleanupOldBackups(backups, keepCount, failed)
    /\ lastOp' = [keepCount |-> keepCount]
                      @@ LastOp("cleanup", TRUE, <<>>, NoGroup, NoDecision, FALSE, 0)
    /\ UNCHANGED <<files, report>>
    /\ Called(failed # {})

BackupIds == {backups[i].id : i \in 1..Len(backups)}
KeepCounts == {0, 1, 2}

NextStore ==
    \/ \E entry \in StoreEntries, f \in Env(1) : AddTranslation(entry, f)
    \/ \E entries \in StoreBatches, f \in Env(2) : AddTranslations(entries, f)
    \/ \E wr \in StoreWrites, f \in Env(1) :
           WriteTranslationFile(wr.locale, wr.translations, f)
    \/ \E up \in StoreUpdates, f \in Env(1) :
           UpdateTranslationFile(up.locale, up.newEntries, f)
    \/ ScanForDuplicates
    \/ \E locale \in Locales, n \in 1..2, decision \in Decisions, f \in Env(1) :
           ConsolidateDuplicates(locale, n, decision, f)
    \/ \E f \in Env(0) : CreateBackup(f)
    \/ \E id \in BackupIds \cup {0}, failAt \in 0..Cardinality(Locales) :
           RestoreBackup(id, failAt)

SpecStore == InitStore /\ [][NextStore]_vars

\* duplicate consolidation on a locale that holds a duplicate group and a key
\* of another value
ConsolidateDirs ==
    {[l \in Locales |->
         IF l = L_en
         THEN JsonFile(<<<<K_bad, V_y>>, <<K_ab, V_x>>, <<K_cd, V_x>>>>)
         ELSE other] :
     other \in {NoFile, JsonFile(<<<<K_ab, V_y>>>>)}}

InitConsolidate ==
    /\ NormIdle
    /\ KmIdle
    /\ rules = DEFAULT_KEY_RULES
    /\ valUsed = {}
    /\ files \in ConsolidateDirs
    /\ backups = <<>>
    /\ createBackups \in BOOLEAN
    /\ report = [l \in Locales |-> <<>>]
    /\ lastOp = [op |-> "new"]
    /\ stOps = 0
    /\ faults = 0

NextConsolidate ==
    \/ \E entry \in StoreEntries, f \in Env(1) : AddTranslation(entry, f)
    \/ ScanForDuplicates
    \/ \E locale \in Locales, n \in 1..2, decision \in Decisions, f \in Env(1) :
           ConsolidateDuplicates(locale, n, decision, f)

SpecConsolidate == InitConsolidate /\ [][NextConsolidate]_vars

\* the backup directory over its whole life: backups are taken, by a call
\* that writes or on their own, restored, cleaned up, and damaged
NextBackup ==
    \/ \E wr \in StoreWrites, f \in Env(1) :
           WriteTranslationFile(wr.locale, wr.translations, f)
    \/ \E f \in Env(0) \cup (IF Len(backups) > 0 THEN {SameInstant} ELSE {}) :
           CreateBackup(f)
    \/ \E id \in BackupIds \cup {0}, failAt \in 0..Cardinality(Locales) :
           RestoreBackup(id, failAt)
    \/ \E id \in BackupIds, name \in Locales : SnapshotFileLost(id, name)
    \/ \E keepCount \in KeepCounts, failed \in {{}} \cup {{id} : id \in BackupIds} :
           CleanupOldBackups(keepCount, failed)

SpecBackup == InitStore /\ [][NextBackup]_vars

-----------------------------------------------------------------------------
(* JSONManager.validateTranslationFile over files of any JSON content.  A    *)
(* file of kind "doc" holds a JSON text that parses to value.                *)

JString(str) == [t |-> "string", str |-> str]
JNumber == [t |-> "number"]
JNull == [t |-> "null"]
JArray(items) == [t |-> "array", items |-> items]
JObject(members) == [t |-> "object", members |-> members]
DocFile(value) == [kind |-> "doc", value |-> value]

\* the typeof operator
TypeOf(j) ==
    IF j.t \in {"null", "array", "object"} THEN "object" ELSE j.t

\* String(i) for an array index
IndexKey(i) == <<CharOrder[Code("0") + i]>>

\* JSON.parse of a file that parses
Parsed(f) ==
    IF f.kind = "doc" THEN f.value
    ELSE JObject([i \in 1..Len(KeysOf(f.entries)) |->
                     <<KeysOf(f.entries)[i],
                       JString(ParseEntries(f.entries)[KeysOf(f.entries)[i]])>>])

\* Object.entries: the own enumerable members; it throws on null
ObjectEntries(j) ==
    CASE j.t = "object" -> j.members
      [] j.t = "array" -> [i \in 1..Len(j.items) |-> <<IndexKey(i - 1), j.items[i]>>]
      [] j.t = "string" -> [i \in 1..Len(j.str) |-> <<IndexKey(i - 1), JString(<<j.str[i]>>)>>]
      [] OTHER -> <<>>

NotAnObject == [error |-> "must contain a JSON object"]
ParsingError == [error |-> "JSON parsing error"]
NonString(member) == [error |-> "non-string value", key |-> member[1], type |-> TypeOf(member[2])]

\* the errors of the loop over Object.entries(parsed)
NonStringErrors(j) ==
    LET bad == SelectSeq(ObjectEntries(j), LAMBDA member : TypeOf(member[2]) # "string")
    IN  [i \in 1..Len(bad) |-> NonString(bad[i])]

\* JSONManager.validateTranslationFile
validateTranslationFile(dir, locale) ==
    With(dir[locale], LAMBDA f :
        IF f.kind = "absent" THEN [isValid |-> TRUE, errors |-> <<>>]
        ELSE IF f.kind = "torn" THEN [isValid |-> FALSE, errors |-> <<ParsingError>>]
        ELSE With(Parsed(f), LAMBDA parsed :
            IF parsed.t = "null"
            THEN [isValid |-> FALSE, errors |-> <<NotAnObject, ParsingError>>]
            ELSE With((IF TypeOf(parsed) # "object" THEN <<NotAnObject>> ELSE <<>>)
                          \o NonStringErrors(parsed),
                      LAMBDA errors : [isValid |-> Len(errors) = 0, errors |-> errors])))

\* the contents a locale file is validated on
ValidateFiles ==
    {NoFile,
     TornFile(<<<<K_ab, V_x>>>>),
     JsonFile(<<>>),
     JsonFile(<<<<K_ab, V_x>>, <<K_cd, V_y>>>>),
     DocFile(JNull),
     DocFile(JNumber),
     DocFile(JString(V_x)),
     DocFile(JArray(<<>>)),
     DocFile(JArray(<<JString(V_x)>>)),
     DocFile(JArray(<<JString(V_x), JNumber>>)),
     DocFile(JObject(<<<<K_ab, JNumber>>>>)),
     DocFile(JObject(<<<<K_ab, JString(V_x)>>, <<K_cd, JObject(<<>>)>>>>)),
     DocFile(JObject(<<<<K_ab, JNull>>, <<K_bad, JString(V_y)>>, <<K_cd, JArray(<<>>)>>>>))}

InitValidate ==
    /\ NormIdle
    /\ KmIdle
    /\ rules = DEFAULT_KEY_RULES
    /\ valUsed = {}
    /\ files \in [Locales -> ValidateFiles]
    /\ backups = <<>>
    /\ createBackups = TRUE
    /\ report = [l \in Locales |-> <<>>]
    /\ lastOp = [op |-> "new"]
    /\ stOps = 0
    /\ faults = 0

\* TranslationManager.validateTranslationFile
ValidateTranslationFile(locale) ==
    /\ CanCall
    /\ \E res \in {validateTranslationFile(files, locale)} :
        lastOp' = [op |-> "validate", locale |-> locale,
                   isValid |-> res.isValid, errors |-> res.errors]
    /\ UNCHANGED <<files, backups, report>>
    /\ Called(FALSE)

NextValidate == \E locale \in Locales : ValidateTranslationFile(locale)

SpecValidate == InitValidate /\ [][NextValidate]_vars

\* the keys the last call returned are the last kmLast.n of kmKeys
ReturnedNow == {i \in 1..Len(kmKeys) : i > Len(kmKeys) - kmLast.n}

\* C1: a final key returned by resolve/resolveBatch differs from every final key
\* returned before it since the last reset and from every key seeded before it
C1_FinalKeysUnique ==
    kmLast.op \in {"resolve", "resolveBatch"} =>
        \A i \in ReturnedNow :
            /\ kmKeys[i] \notin kmSeeded
            /\ \A j \in 1..(i - 1) : kmKeys[j] # kmKeys[i]

\* a resolve generated a key that had been seeded and returned another one,
\* after an earlier resolve had returned a key
C1_Witness ==
    /\ kmLast.op = "resolve"
    /\ kmLast.generatedKey \in kmSeeded
    /\ Len(kmKeys) >= 2
    /\ kmKeys[Len(kmKeys)] # kmLast.generatedKey

\* C5: the key normalizeKey returns passes validateKey
C5_ValidAfterNormalize == nPc \in {"validated", "done"} => nValid

\* C6: normalizing a normalized key returns it unchanged
C6_NormalizeIdempotent == nPc = "done" => nOut2 = nOut

-----------------------------------------------------------------------------
(* The translation store *)

StoreOf(locale) == readTranslationFile(files, locale)

\* C2: after a consolidate decision whose target is one of the group's keys,
\* the target maps to the group's value and no other key of the group is left
C2_ConsolidateKeepsTarget ==
    ( /\ lastOp.op = "consolidate"
      /\ lastOp.action = "consolidate"
      /\ lastOp.ok
      /\ lastOp.key \in Range(lastOp.keys) ) =>
        /\ StoreOf(lastOp.locale).ok
        /\ lastOp.key \in DOMAIN StoreOf(lastOp.locale).map
        /\ StoreOf(lastOp.locale).map[lastOp.key] = lastOp.value
        /\ \A k \in Range(lastOp.keys) \ {lastOp.key} :
               k \notin DOMAIN StoreOf(lastOp.locale).map

\* a duplicate group of two keys was consolidated into one of them
C2_Witness ==
    /\ lastOp.op = "consolidate"
    /\ lastOp.action = "consolidate"
    /\ lastOp.ok
    /\ lastOp.actual
    /\ Len(lastOp.keys) >= 2
    /\ lastOp.key \in Range(lastOp.keys)

\* C3: after a rename decision on a duplicate group the new key, and no other
\* key, maps to the group's value, whatever the new key is
C3_RenameKeepsValue ==
    ( /\ lastOp.op = "consolidate"
      /\ lastOp.action = "rename"
      /\ lastOp.ok
      /\ lastOp.actual ) =>
        /\ StoreOf(lastOp.locale).ok
        /\ lastOp.key \in DOMAIN StoreOf(lastOp.locale).map
        /\ {k \in DOMAIN StoreOf(lastOp.locale).map :
               StoreOf(lastOp.locale).map[k] = lastOp.value} = {lastOp.key}

\* C4 as stated: after a restore every locale has the content it had when the
\* backup was taken
C4_RoundTripEveryLocale ==
    (lastOp.op = "restore" /\ lastOp.ok) =>
        \A l \in Locales : files[l] = BackupOf(backups, lastOp.id).live[l]

\* C4: after a restore every locale file listed in the manifest of the backup
\* has the content it had when the backup was taken
C4_RoundTripManifest ==
    (lastOp.op = "restore" /\ lastOp.ok) =>
        \A l \in Range(BackupOf(backups, lastOp.id).files) :
            files[l] = BackupOf(backups, lastOp.id).live[l]

\* a backup with a file in its manifest was restored after a locale file that
\* did not exist at backup time had been created
C4_Witness ==
    /\ lastOp.op = "restore"
    /\ lastOp.ok
    /\ BackupOf(backups, lastOp.id).files # <<>>
    /\ \E l \in Locales :
           /\ BackupOf(backups, lastOp.id).live[l].kind = "absent"
           /\ files[l].kind = "json"

\* C7: every key of every persisted locale file passes validateKey
C7_PersistedKeysValid ==
    \A l \in Locales :
        files[l].kind = "json" =>
            \A k \in DOMAIN ParseEntries(files[l].entries) : isValid(k, rules, {})

\* C8: every persisted locale file is a complete JSON object
C8_FilesAlwaysValid ==
    \A l \in Locales : files[l].kind \in {"absent", "json"}

WritingCalls == {"addTranslation", "addTranslations", "consolidate", "write"}

\* C9: when createBackup has returned an id, the manifest of that backup lists
\* exactly the files of its snapshot, each with the content the live file had
\* at backup time; a missing file is not listed
C9_ManifestExact ==
    (lastOp.op \in {"createBackup"} \cup WritingCalls /\ lastOp.id # 0) =>
        LET bk == BackupOf(backups, lastOp.id)
        IN  /\ Range(bk.files) = DOMAIN bk.snap
            /\ Cardinality(Range(bk.files)) = Len(bk.files)
            /\ \A n \in DOMAIN bk.snap :
                   /\ bk.live[n].kind # "absent"
                   /\ bk.snap[n] = bk.live[n]

\* createBackup returned while one locale file existed and the other did not
C9_Witness ==
    /\ lastOp.op = "createBackup"
    /\ lastOp.ok
    /\ BackupOf(backups, lastOp.id).files # <<>>
    /\ \E l \in Locales : BackupOf(backups, lastOp.id).live[l].kind = "absent"

\* C10: a restore leaves every live file outside the manifest, and every
\* backup, as it was
C10_RestoreFrame ==
    [][ (lastOp'.op = "restore" /\ stOps' # stOps) =>
            /\ backups' = backups
            /\ \A l \in Locales :
                   ( \/ ~HasBackup(backups, lastOp'.id)
                     \/ l \notin Range(BackupOf(backups, lastOp'.id).files) ) =>
                       files'[l] = files[l] ]_vars

\* a backup was restored while a live file outside its manifest and a second
\* backup existed
C10_Witness ==
    /\ lastOp.op = "restore"
    /\ lastOp.ok
    /\ Len(backups) >= 2
    /\ BackupOf(backups, lastOp.id).files # <<>>
    /\ \E l \in Locales :
           /\ l \notin Range(BackupOf(backups, lastOp.id).files)
           /\ files[l].kind = "json"

\* C11: with createBackups set, a TranslationManager call that writes either
\* first takes a backup of the directory as the call found it, or fails and
\* leaves every locale file as it was
C11_BackupBeforeWrite ==
    [][ (createBackups /\ stOps' # stOps /\ lastOp'.op \in WritingCalls) =>
            \/ /\ Len(backups') = Len(backups) + 1
               /\ backups'[Len(backups')].live = files
               /\ lastOp'.id = backups'[Len(backups')].id
            \/ /\ backups' = backups
               /\ files' = files
               /\ ~lastOp'.ok ]_vars

\* a writing call failed on its backup after an earlier call had taken one
C11_Witness ==
    /\ createBackups
    /\ lastOp.op \in WritingCalls
    /\ ~lastOp.ok
    /\ lastOp.id = 0
    /\ Len(backups) >= 1

\* C12: generateKeys returns, with one result for each match
C12_BatchNeverFails ==
    kmLast.op = "resolveBatch" => kmLast.ok /\ kmLast.n = kmLast.asked

\* C13: on a locale whose file does not parse, a read fails, and update,
\* addTranslation and consolidate fail and leave every locale file as it was
C13_MalformedIsAnError ==
    [][ \A l \in Locales :
            files[l].kind = "torn" =>
                /\ ~readTranslationFile(files, l).ok
                /\ ( /\ stOps' # stOps
                     /\ lastOp'.op \in {"update", "addTranslation", "consolidate"}
                     /\ lastOp'.locale = l ) =>
                       (~lastOp'.ok /\ files' = files) ]_vars

\* without backups, a keep_separate decision failed on a locale whose file
\* does not parse
C13_Witness ==
    /\ lastOp.op = "consolidate"
    /\ lastOp.action = "keep_separate"
    /\ ~createBackups
    /\ ~lastOp.ok
    /\ files[lastOp.locale].kind = "torn"

\* the keys and values a locale's file holds; none when it is absent or unreadable
KeysAndValues(locale) == StoreOf(locale).map

\* C14: a scan reports, for each locale, one group for every value that two or
\* more keys hold, made of exactly the keys that hold it, and nothing else
C14_ScanPartition ==
    lastOp.op = "scan" =>
        \A l \in Locales :
            /\ \A i \in 1..Len(report[l]) :
                   /\ Len(report[l][i].keys) > 1
                   /\ Cardinality(Range(report[l][i].keys)) = Len(report[l][i].keys)
                   /\ Range(report[l][i].keys) =
                          {k \in DOMAIN KeysAndValues(l) :
                               KeysAndValues(l)[k] = report[l][i].value}
                   /\ \A j \in 1..Len(report[l]) :
                          j # i => report[l][j].value # report[l][i].value
            /\ \A k1, k2 \in DOMAIN KeysAndValues(l) :
                   (k1 # k2 /\ KeysAndValues(l)[k1] = KeysAndValues(l)[k2]) =>
                       \E i \in 1..Len(report[l]) : k1 \in Range(report[l][i].keys)

\* a scan found a duplicate group in a file that also has a value held by one key
C14_Witness ==
    /\ lastOp.op = "scan"
    /\ \E l \in Locales :
           /\ Len(report[l]) >= 1
           /\ \E k \in DOMAIN KeysAndValues(l) :
                  \A i \in 1..Len(report[l]) : k \notin Range(report[l][i].keys)

\* C15: a scan reports two keys of a locale together whenever their values
\* are equal after normalizeValue
C15_ScanGroupsNormalized ==
    lastOp.op = "scan" =>
        \A l \in Locales :
            \A k1, k2 \in DOMAIN KeysAndValues(l) :
                ( /\ k1 # k2
                  /\ normalizeValue(KeysAndValues(l)[k1])
                         = normalizeValue(KeysAndValues(l)[k2]) ) =>
                    \E i \in 1..Len(report[l]) :
                        {k1, k2} \subseteq Range(report[l][i].keys)

\* C16: an update that returns leaves the locale with every key of newEntries at
\* its new value, every other previous key at its previous value, and no other key
C16_UpdateOverrides ==
    [][ (stOps' # stOps /\ lastOp'.op = "update" /\ lastOp'.ok) =>
            /\ files'[lastOp'.locale].kind = "json"
            /\ DOMAIN ParseEntries(files'[lastOp'.locale].entries) =
                   DOMAIN StoreOf(lastOp'.locale).map \cup DOMAIN lastOp'.newEntries
            /\ \A k \in DOMAIN lastOp'.newEntries :
                   ParseEntries(files'[lastOp'.locale].entries)[k] = lastOp'.newEntries[k]
            /\ \A k \in DOMAIN StoreOf(lastOp'.locale).map \ DOMAIN lastOp'.newEntries :
                   ParseEntries(files'[lastOp'.locale].entries)[k] =
                       StoreOf(lastOp'.locale).map[k] ]_vars

\* an update returned on a locale that holds a key the update did not name
C16_Witness ==
    /\ lastOp.op = "update"
    /\ lastOp.ok
    /\ DOMAIN KeysAndValues(lastOp.locale) \ DOMAIN lastOp.newEntries # {}

\* C17: the key normalizeKey returns is not in the used-keys set
C17_NormalizeAvoidsUsed ==
    nPc \in {"normalized", "validated", "done"} => nOut \notin valUsed

\* the first n elements of a sequence
FirstN(seq, n) == SubSeq(seq, 1, IF n < Len(seq) THEN n ELSE Len(seq))

\* C18: after cleanupOldBackups(keep) on n backups, listBackups returns exactly
\* the min(n, keep) backups with the latest timestamps, newest first, and no
\* backup is deleted when n <= keep
C18_CleanupKeepsNewest ==
    [][ (stOps' # stOps /\ lastOp'.op = "cleanup") =>
            /\ listBackups(backups') = FirstN(listBackups(backups), lastOp'.keepCount)
            /\ Len(backups) <= lastOp'.keepCount => backups' = backups ]_vars

\* when every removal succeeds, cleanup leaves the newest keepCount backups
CleanupWithoutFailure ==
    [][ (stOps' # stOps /\ lastOp'.op = "cleanup" /\ faults' = faults) =>
            /\ listBackups(backups') = FirstN(listBackups(backups), lastOp'.keepCount)
            /\ Len(backups) <= lastOp'.keepCount => backups' = backups ]_vars

\* the file parses as a flat mapping whose values are all strings
IsFlatStringMapping(f) ==
    /\ f.kind \in {"json", "doc"}
    /\ Parsed(f).t = "object"
    /\ \A i \in 1..Len(Parsed(f).members) : Parsed(f).members[i][2].t = "string"

\* C19: validateStructure(locale) returns isValid = TRUE only when the locale
\* file is absent or parses as a flat mapping whose values are all strings;
\* for a file that parses to anything else isValid is FALSE, and each
\* non-string value of an object is reported with its key
C19_ValidOnlyFlatStringMapping ==
    lastOp.op = "validate" =>
        LET f == files[lastOp.locale]
        IN  /\ lastOp.isValid => f.kind = "absent" \/ IsFlatStringMapping(f)
            /\ (f.kind = "doc" /\ ~IsFlatStringMapping(f)) => ~lastOp.isValid
            /\ (f.kind = "doc" /\ f.value.t = "object") =>
                   \A i \in 1..Len(f.value.members) :
                       f.value.members[i][2].t # "string" =>
                           \E n \in 1..Len(lastOp.errors) :
                               /\ lastOp.errors[n].error = "non-string value"
                               /\ lastOp.errors[n].key = f.value.members[i][1]

\* apart from arrays, validateTranslationFile accepts exactly the absent
\* files and the flat string mappings
ValidExceptArrays ==
    (lastOp.op = "validate" /\ ~(files[lastOp.locale].kind = "doc"
                                  /\ files[lastOp.locale].value.t = "array")) =>
        (lastOp.isValid <=> \/ files[lastOp.locale].kind = "absent"
                            \/ IsFlatStringMapping(files[lastOp.locale]))

\* the manifest of the backup lists a file its snapshot does not hold
LacksSnapshotFile(bk) == \E i \in 1..Len(bk.files) : bk.files[i] \notin DOMAIN bk.snap

\* C20: restoreBackup on a backup whose manifest lists a file that is no
\* longer in the snapshot fails; every other backup is still listed, and one
\* whose snapshot is complete can still be restored
C20_MissingSnapshotFileFails ==
    [][ ( /\ stOps' # stOps
          /\ lastOp'.op = "restore"
          /\ HasBackup(backups, lastOp'.id)
          /\ LacksSnapshotFile(BackupOf(backups, lastOp'.id)) ) =>
            /\ ~lastOp'.ok
            /\ \A i \in 1..Len(backups) :
                   backups[i].id # lastOp'.id =>
                       /\ \E n \in 1..Len(listBackups(backups')) :
                              listBackups(backups')[n] = backups[i]
                       /\ ~LacksSnapshotFile(backups[i]) =>
                              LET res == restoreBackup(files', backups', backups[i].id, 0)
                              IN  /\ res.ok
                                  /\ \A l \in Range(backups[i].files) :
                                         res.dir[l] = backups[i].live[l] ]_vars

\* a restore failed on a backup that had lost a snapshot file while a second
\* backup with a file in its manifest existed
C20_Witness ==
    /\ lastOp.op = "restore"
    /\ ~lastOp.ok
    /\ HasBackup(backups, lastOp.id)
    /\ LacksSnapshotFile(BackupOf(backups, lastOp.id))
    /\ \E i \in 1..Len(backups) :
           /\ backups[i].id # lastOp.id
           /\ backups[i].files # <<>>
           /\ ~LacksSnapshotFile(backups[i])

\* C21: a scan over a store in which a locale file is malformed surfaces an
\* error to the caller, and never returns a report for that locale
C21_ScanSurfacesMalformed ==
    (lastOp.op = "scan" /\ \E l \in Locales : files[l].kind = "torn") => ~lastOp.ok

\* C22: after reset the generator's used keys, the validator's used keys and
\* the detector's per-locale maps are those of a newly constructed KeyManager,
\* so every later call returns what it returns on a new instance
C22_ResetIsFresh ==
    kmLast.op = "reset" =>
        /\ KmState = NewKmState
        /\ \A t \in KmTexts, l \in KmLocales, c \in KmContexts :
               processTextForKey(KmState, t, l, c, options, rules).finalKey
                   = processTextForKey(NewKmState, t, l, c, options, rules).finalKey

\* a KeyManager that held keys was reset
C22_Witness == kmLast.op = "reset" /\ kmLast.dirty

\* C23: calculateSimilarity(a, b) = calculateSimilarity(b, a) and
\* calculateSimilarity(a, a) = 1, the empty string included
C23_SimilaritySymmetricReflexive ==
    simOut # <<>> => simOut[1] = simOut[2] /\ simOut[3] = Number(1)

\* the similarity of two different strings of different lengths, neither
\* empty, was computed
C23_Witness ==
    /\ simOut # <<>>
    /\ Len(str1) > Len(str2) /\ Len(str2) > 0
    /\ simOut[1] \notin {Number(0), Number(1)}

\* C24: in every locale a key is listed under a normalized value exactly when
\* it now maps to a value with that normalization, no key is listed twice, and
\* every group of getDuplicateValues holds two different keys
C24_ValueMapAgrees ==
    \A l \in DOMAIN ddData :
        /\ \A nv \in DOMAIN ddV2K[l] :
               /\ \A i, j \in 1..Len(ddV2K[l][nv]) :
                      ddV2K[l][nv][i] = ddV2K[l][nv][j] => i = j
               /\ \A i \in 1..Len(ddV2K[l][nv]) :
                      /\ ddV2K[l][nv][i] \in DOMAIN ddData[l]
                      /\ normalizeValue(ddData[l][ddV2K[l][nv][i]]) = nv
        /\ \A k \in DOMAIN ddData[l] :
               /\ normalizeValue(ddData[l][k]) \in DOMAIN ddV2K[l]
               /\ \E i \in 1..Len(ddV2K[l][normalizeValue(ddData[l][k])]) :
                      ddV2K[l][normalizeValue(ddData[l][k])][i] = k
        /\ \A g \in getDuplicateValues(ddV2K, l) : Cardinality(Range(g.keys)) >= 2

\* the keys known before a call: seeded from existing translations or
\* produced earlier in the run
KnownKeys == genUsed \cup valUsed

\* the key createSemanticKey makes for the item the next state resolved
SynthesizedKey ==
    createSemanticKey(transliterateText(normalizeText(kmLast'.text)), kmLast'.context, options)

\* C25: when the synthesized key collides with a known key and a context is
\* given, the final key is the contextual key (key_slug, or key_alt) if that
\* is unused, and a numbered key only when the contextual key is in use
C25_ContextualSuffixFirst ==
    [][ ( /\ kmOps' # kmOps
          /\ kmLast'.op = "resolve"
          /\ kmLast'.context # <<>>
          /\ SynthesizedKey \in KnownKeys ) =>
            IF generateContextualSuffix(SynthesizedKey, kmLast'.context) \notin KnownKeys
            THEN kmKeys'[Len(kmKeys')] = generateContextualSuffix(SynthesizedKey, kmLast'.context)
            ELSE \E n \in 1..9 :
                     kmKeys'[Len(kmKeys')] = SynthesizedKey \o <<"_">> \o NumStr(n) ]_vars

\* C26: when checkValueDuplicate reports the text as a value of the locale and
\* checkKeyDuplicate reports no duplicate, resolve returns the key resolved by
\* contextual/numeric suffixing, as it does for a key duplicate
C26_ValueDuplicateIsResolved ==
    [][ ( /\ kmOps' # kmOps
          /\ kmLast'.op = "resolve"
          /\ kmLast'.valueDup
          /\ ~kmLast'.keyDup ) =>
            kmKeys'[Len(kmKeys')]
                = handleKeyDuplicate(kmLast'.normalized, kmLast'.context, valUsed) ]_vars

\* C27: the key generateKey returns is at most options.maxLength long
C27_LengthCeiling ==
    kmLast.op = "generateKey" => Len(kmLast.key) <= options.maxLength

\* short of the numbered keys of ensureUniqueness and of keys of several
\* segments, generateKey keeps to the ceiling
CeilingOfSingleSegment ==
    (kmLast.op = "generateKey" /\ Len(Split(kmLast.key)) = 1) =>
        Len(kmLast.key) <= options.maxLength

\* the same under a ceiling the configuration schema accepts
CeilingOfValidConfig ==
    (kmLast.op = "generateKey" /\ options.maxLength >= MinConfigMaxLength) =>
        Len(kmLast.key) <= options.maxLength

\* the keys held in the detector's per-locale maps
DetectorKeys == UNION {DOMAIN ddData[l] : l \in DOMAIN ddData}

\* C28: every key of the detector's per-locale maps is in the validator's
\* used-keys set, and the key-duplicate check inside resolve never reports a
\* duplicate
C28_DetectorKeysAreUsed ==
    /\ DetectorKeys \subseteq valUsed
    /\ kmLast.op = "resolve" => ~kmLast.keyDup

\* a resolve generated a key that the detector holds in the locale asked for,
\* and went on with another key
C28_Witness ==
    /\ kmLast.op = "resolve"
    /\ kmLast.locale \in DOMAIN ddData
    /\ kmLast.generatedKey # kmLast.normalized
    /\ kmLast.generatedKey \in DOMAIN ddData[kmLast.locale]

\* C29: a consolidate or rename leaves every key of the locale that is not in
\* the group's key list with the value it had, also when it is the key chosen
\* as targetKey or newKey, and leaves the files of the other locales as they were
C29_ConsolidateFrame ==
    [][ ( /\ stOps' # stOps
          /\ lastOp'.op = "consolidate"
          /\ lastOp'.ok
          /\ lastOp'.action \in {"consolidate", "rename"} ) =>
            /\ \A k \in DOMAIN KeysAndValues(lastOp'.locale) \ Range(lastOp'.keys) :
                   /\ k \in DOMAIN readTranslationFile(files', lastOp'.locale).map
                   /\ readTranslationFile(files', lastOp'.locale).map[k]
                          = KeysAndValues(lastOp'.locale)[k]
            /\ \A l \in Locales \ {lastOp'.locale} : files'[l] = files[l] ]_vars

\* C30: for one error key the strategy is invoked at most maxRetries times
\* without a successful recovery or a reset in between, overlapping calls
\* included, and a call that finds maxRetries recorded attempts returns
\* success = FALSE and retryable = FALSE
C30_RetriesBounded ==
    /\ invoked <= recoveryOptions.maxRetries
    /\ \A c \in 1..Len(recoveryCalls) :
           ( /\ recoveryCalls[c].pc = "returned"
             /\ recoveryCalls[c].attempts >= recoveryOptions.maxRetries ) =>
               recoveryCalls[c].result = MaxExceeded

\* calls that never wait in the retry delay keep to maxRetries
RetriesBoundedWithoutDelay ==
    recoveryOptions.retryDelay = 0 => invoked <= recoveryOptions.maxRetries

\* a call that finds maxRetries recorded attempts is refused
RefusedAtMaxRetries ==
    \A c \in 1..Len(recoveryCalls) :
        ( /\ recoveryCalls[c].pc = "returned"
          /\ recoveryCalls[c].attempts >= recoveryOptions.maxRetries ) =>
            recoveryCalls[c].result = MaxExceeded

=============================================================================
